---- MODULE Spec2Model ----
(***************************************************************************)
(* Model of src/compliance-checker.js: one checkCompliance() invocation,   *)
(* the ComplianceChecker run it starts, and the GitHub API answering it.   *)
(*                                                                         *)
(* Encoding of JavaScript values: booleans are the strings "true" and      *)
(* "false", null is "null", undefined is "undefined", the empty string is  *)
(* "".  An optional value (null or an object) is a sequence of length 0 or *)
(* 1.  A text is a sequence of words.                                      *)
(***************************************************************************)
EXTENDS Integers, Sequences, FiniteSets, TLC

VARIABLES
    pc,             \* await point the invocation is suspended at, "idle" or "done"
    input,          \* the form fields: [repoUrl, token]
    ui,             \* [loading, error, shown]: button state, error box, results section
    currentResults, \* the global currentResults: <<>> (null) or <<results>>
    checker,        \* the ComplianceChecker instance: <<>> or <<[owner, repo, token, results, repoData]>>
    locals,         \* local variables of the check method in progress that live across awaits
    returned,       \* what runAllChecks resolved with: <<>> or <<results>>
    thrown,         \* what the try block of checkCompliance threw: <<>> or <<[at, message]>>
    faults,         \* number of failure answers the remote has given so far
    requests,       \* the remote requests of the invocation: sequence of [site, endpoint, headers, outcome]
    now,            \* the date `new Date()` returns
    other,          \* a second invocation of checkCompliance, suspended at an await:
                    \* <<>> or <<[pc, input, checker, locals, returned, thrown, requests]>>
    probe           \* a direct call of githubRequest or of a probe built on it:
                    \* <<>> or <<[fn, response, outcome]>>

vars ==
    <<pc, input, ui, currentResults, checker, locals, returned, thrown, faults, requests, now,
      other, probe>>

(***************************************************************************)
(* Bounds                                                                  *)
(***************************************************************************)
\* failure answers (403, 401, 5xx, malformed payload) the remote gives in one run
MaxFaults == 1

(***************************************************************************)
(* JavaScript values                                                       *)
(***************************************************************************)
\* ToBoolean of the values the checks use
Truthy(v) == v \notin {"false", "null", "undefined", ""}

\* a || b
JsOr(a, b) == IF Truthy(a) THEN a ELSE b

\* a boolean expression result as a JavaScript boolean
JsBool(b) == IF b THEN "true" ELSE "false"

\* Math.round(num / den) for num >= 0, den > 0: the nearest integer, halves up
MathRound(num, den) == (2 * num + den) \div (2 * den)

(***************************************************************************)
(* Texts: a text is a sequence of words; case and substrings are tables.   *)
(***************************************************************************)
\* String.prototype.toLowerCase on one word
LowerWord(w) ==
    CASE w = "Overview" -> "overview"
      [] w = "Installation" -> "installation"
      [] w = "USAGE" -> "usage"
      [] w = "Notes" -> "notes"
      [] OTHER -> w

\* String.prototype.toLowerCase
ToLowerCase(text) == [i \in DOMAIN text |-> LowerWord(text[i])]

\* the keywords and comment markers that occur inside a word
SubstringsOf(w) ==
    CASE w = "installation" -> {"installation", "install"}
      [] w = "Installation" -> {"Installation", "nstall"}
      [] w = "//comment" -> {"//comment", "//"}
      [] w = "/*block*/" -> {"/*block*/", "/*"}
      [] w = "#!shebang" -> {"#!shebang", "#"}
      [] OTHER -> {w}

\* String.prototype.includes
Includes(text, kw) == \E i \in DOMAIN text : kw \in SubstringsOf(text[i])

\* keywords.some(kw => text.includes(kw))
SomeKeyword(text, keywords) == \E kw \in keywords : Includes(text, kw)

\* String.prototype.endsWith on a file name, for the extensions of checkCodeComments
CodeExtensions == {".py", ".js", ".java", ".go", ".rs", ".ts", ".jsx", ".tsx"}

ExtensionOf(name) ==
    CASE name \in {"index.js", ".eslintrc.js", "app.js"} -> ".js"
      [] name = "setup.py" -> ".py"
      [] name = "main.go" -> ".go"
      [] name = "cli.ts" -> ".ts"
      [] OTHER -> ""

(***************************************************************************)
(* The repositories the remote holds                                       *)
(***************************************************************************)
\* the date of the day the page is opened, and a day one year later
Today == "2026-11-04"

NextYear == "2027-11-04"

\* Date.prototype.getTime of a pushed_at value: days since 1970-01-01; -1 is NaN
DateValue(d) ==
    CASE d = "2026-10-01" -> 20727
      [] d = "2019-03-05" -> 17960
      [] d = "2026-11-04" -> 20761
      [] d = "2025-11-04" -> 20396
      [] d = "2027-11-04" -> 21126
      [] d = "null" -> 0
      [] OTHER -> -1

\* pushedAt > oneYearAgo, false when either side is NaN
DateAfter(a, b) == DateValue(a) >= 0 /\ DateValue(b) >= 0 /\ DateValue(a) > DateValue(b)

\* Date.prototype.toLocaleDateString
ToLocaleDateString(d) ==
    CASE d = "2026-10-01" -> "10/1/2026"
      [] d = "2019-03-05" -> "3/5/2019"
      [] d = "null" -> "1/1/1970"
      [] OTHER -> "Invalid Date"

LinterFiles ==
    <<".eslintrc", ".eslintrc.json", ".eslintrc.js", ".pylintrc", ".rubocop.yml",
      "tslint.json", ".editorconfig", "phpcs.xml", ".prettierrc", ".prettierrc.json">>

Item(type, name) == [type |-> type, name |-> name, path |-> name]

\* a well-kept OWASP project
RepoFull ==
    [exists |-> TRUE,
     meta |-> [license |-> "MIT License", has_issues |-> "true", has_wiki |-> "true",
               has_discussions |-> "true", open_issues_count |-> "3",
               pushed_at |-> "2026-10-01"],
     readme |-> <<<<"Overview", "Installation", "USAGE">>>>,
     files |-> {"CONTRIBUTING.md", "CODE_OF_CONDUCT.md", "ROADMAP.md", "swagger.yaml",
                "scripts/README.md", "FAQ.md", "CHANGELOG.md", ".prettierrc",
                "SECURITY.md", ".github/dependabot.yml", "PRIVACY.md", "index.js",
                "Jenkinsfile"},
     dirs |-> {"docs", "tests", ".github/workflows", "src"},
     root |-> <<Item("dir", "src"), Item("dir", "tests"), Item("file", "index.js"),
                Item("dir", "docs")>>,
     code |-> [p \in {"index.js"} |-> <<"//comment", "code">>],
     commits |-> 1, releases |-> 1, collaborators |-> 1]

\* a repository with nothing in it but code
RepoBare ==
    [exists |-> TRUE,
     meta |-> [license |-> "null", has_issues |-> "false", has_wiki |-> "false",
               has_discussions |-> "false", open_issues_count |-> "0",
               pushed_at |-> "2019-03-05"],
     readme |-> <<>>,
     files |-> {"setup.py", "main.go", "app.js"},
     dirs |-> {},
     root |-> <<Item("file", "notes.txt"), Item("file", "setup.py"), Item("dir", "lib"),
                Item("file", "main.go"), Item("file", "app.js"), Item("file", "index.js")>>,
     code |-> [p \in {"setup.py", "main.go", "app.js"} |->
                  IF p = "app.js" THEN <<"/*block*/">> ELSE <<"code">>],
     commits |-> 0, releases |-> 0, collaborators |-> 0]

\* a repository whose metadata lacks optional fields, with an empty README,
\* "tests" a file and "test" a directory
RepoOdd ==
    [exists |-> TRUE,
     meta |-> [license |-> "Apache License 2.0", has_issues |-> "undefined",
               has_wiki |-> "undefined", has_discussions |-> "undefined",
               open_issues_count |-> "undefined", pushed_at |-> "null"],
     readme |-> <<<<>>>>,
     files |-> {"tests", ".eslintrc.js", ".travis.yml", ".gitlab-ci.yml", "openapi.yaml",
                "TROUBLESHOOTING.md"},
     dirs |-> {"test", "api-docs", "__tests__"},
     root |-> <<Item("file", ".eslintrc.js"), Item("file", "tests"), Item("dir", "test")>>,
     code |-> [p \in {".eslintrc.js"} |-> <<"#!shebang">>],
     commits |-> 1, releases |-> 0, collaborators |-> 0]

\* a repository whose metadata carries no license field at all
RepoNoLicenseField ==
    [RepoBare EXCEPT !.meta.license = "undefined", !.readme = <<<<"Notes">>>>,
                     !.dirs = {"__tests__"}]

\* RepoBare under the OWASP organization, with a license and a README
RepoBareKept ==
    [RepoBare EXCEPT !.meta.license = "MIT License", !.readme = <<<<"Overview", "Notes">>>>]

\* five source files without a comment, and nothing else
RepoPlain ==
    [RepoBare EXCEPT
        !.files = {"setup.py", "main.go", "app.js", "index.js", "cli.ts"},
        !.root = <<Item("file", "setup.py"), Item("file", "main.go"), Item("file", "app.js"),
                   Item("file", "index.js"), Item("file", "cli.ts"),
                   Item("file", "notes.txt")>>,
        !.code = [p \in {"setup.py", "main.go", "app.js", "index.js", "cli.ts"} |->
                     <<"code">>]]

\* no such repository: every request is answered 404
RepoMissing == [RepoBare EXCEPT !.exists = FALSE]

\* the repository behind an owner/repo pair
Repository(owner, repo) ==
    CASE owner = "OWASP" /\ repo = "full" -> RepoFull
      [] owner = "alice" /\ repo = "bare" -> RepoBare
      [] owner = "OWASP" /\ repo = "bare" -> RepoBareKept
      [] owner = "bob" /\ repo = "odd" -> RepoOdd
      [] owner = "carol" /\ repo = "nolicense" -> RepoNoLicenseField
      [] owner = "dave" /\ repo = "plain" -> RepoPlain
      [] OTHER -> RepoMissing

(***************************************************************************)
(* The GitHub API                                                          *)
(***************************************************************************)
\* `${GITHUB_API_BASE}/repos/${owner}/${repo}...`: the parts of an endpoint
Endpoint(owner, repo, api, path) == [owner |-> owner, repo |-> repo, api |-> api, path |-> path]

\* btoa / atob: the API delivers file contents base64-encoded
Btoa(text) == [encoding |-> "base64", data |-> text]

JsonObject(fields) == [isArray |-> FALSE, items |-> <<>>, fields |-> <<fields>>]

JsonArray(items) == [isArray |-> TRUE, items |-> items, fields |-> <<>>]

Response(status, statusText, remaining, body) ==
    [status |-> status, ok |-> (status >= 200 /\ status <= 299), statusText |-> statusText,
     remaining |-> remaining, body |-> body]

NotFound == Response(404, "Not Found", "59", <<>>)

\* what the API answers when nothing goes wrong
Serve(ep) ==
    LET r == Repository(ep.owner, ep.repo)
        list(n) == JsonArray([i \in 1..n |-> Item("entry", "entry")])
    IN  IF ~r.exists THEN NotFound
        ELSE CASE ep.api = "repo" -> Response(200, "OK", "59", <<JsonObject(r.meta)>>)
               [] ep.api = "readme" ->
                    IF r.readme = <<>> THEN NotFound
                    ELSE Response(200, "OK", "59",
                                  <<JsonObject([content |-> Btoa(r.readme[1])])>>)
               [] ep.api = "contents" ->
                    IF ep.path = "" THEN Response(200, "OK", "59", <<JsonArray(r.root)>>)
                    ELSE IF ep.path \in r.dirs THEN Response(200, "OK", "59", <<list(1)>>)
                    ELSE IF ep.path \in r.files
                    THEN Response(200, "OK", "59",
                            <<JsonObject([content |->
                                Btoa(IF ep.path \in DOMAIN r.code THEN r.code[ep.path]
                                     ELSE <<"text">>)])>>)
                    ELSE NotFound
               [] ep.api = "commits" -> Response(200, "OK", "59", <<list(r.commits)>>)
               [] ep.api = "releases" -> Response(200, "OK", "59", <<list(r.releases)>>)
               [] ep.api = "collaborators" ->
                    Response(200, "OK", "59", <<list(r.collaborators)>>)
               [] OTHER -> NotFound

\* the ways a request can fail whatever the repository holds
FaultKinds ==
    {"rateLimited", "forbidden", "forbiddenNoQuotaHeader", "unauthorized", "serverError",
     "malformed"}

Fault(kind) ==
    CASE kind = "rateLimited" -> Response(403, "Forbidden", "0", <<>>)
      [] kind = "forbidden" -> Response(403, "Forbidden", "57", <<>>)
      [] kind = "forbiddenNoQuotaHeader" -> Response(403, "Forbidden", "null", <<>>)
      [] kind = "unauthorized" -> Response(401, "Unauthorized", "59", <<>>)
      [] kind = "serverError" -> Response(500, "Internal Server Error", "59", <<>>)
      [] OTHER -> Response(200, "OK", "59", <<>>)

\* the answers the remote may give to one request
AnswerKinds == {"genuine"} \cup (IF faults < MaxFaults THEN FaultKinds ELSE {})

Answer(kind, ep) == IF kind = "genuine" THEN Serve(ep) ELSE Fault(kind)

(***************************************************************************)
(* githubRequest and the probes built on it                                *)
(***************************************************************************)
\* githubRequest leaving the Authorization header out whatever the token
RequestHeadersNoToken(token) ==
    [Accept |-> "application/vnd.github.v3+json", Authorization |-> <<>>]

\* the headers object githubRequest builds
RequestHeaders(token) ==
    [Accept |-> "application/vnd.github.v3+json",
     Authorization |-> IF Truthy(token) THEN <<"token " \o token>> ELSE <<>>]

\* the outcome of a call: it threw `message`, or it returned `value`
Throw(message) == [threw |-> TRUE, message |-> message, value |-> <<>>]

Return(value) == [threw |-> FALSE, message |-> "", value |-> <<value>>]

StatusString(status) ==
    CASE status = 500 -> "500" [] status = 401 -> "401" [] status = 403 -> "403"
      [] status = 404 -> "404" [] status = 429 -> "429" [] OTHER -> "200"

\* githubRequest reading no X-RateLimit-Remaining header: every 403 is "forbidden"
githubRequestQuotaUnread(response) ==
    IF ~response.ok
    THEN IF response.status = 404 THEN Throw("Repository not found or is private")
         ELSE IF response.status = 403
         THEN Throw("Access forbidden. The repository may be private or require authentication.")
         ELSE IF response.status = 401
         THEN Throw("Invalid GitHub token. Please check your token and try again.")
         ELSE Throw("GitHub API error: " \o StatusString(response.status) \o " "
                    \o response.statusText)
    ELSE IF response.body = <<>> THEN Throw("SyntaxError: Unexpected token in JSON")
    ELSE Return(response.body[1])

\* githubRequest after fetch() resolved with `response`: what it returns or throws
githubRequest(response) ==
    IF ~response.ok
    THEN IF response.status = 404 THEN Throw("Repository not found or is private")
         ELSE IF response.status = 403
         THEN IF response.remaining = "0"
              THEN Throw("GitHub API rate limit exceeded. Please provide a GitHub token or try again later.")
              ELSE Throw("Access forbidden. The repository may be private or require authentication.")
         ELSE IF response.status = 401
         THEN Throw("Invalid GitHub token. Please check your token and try again.")
         ELSE Throw("GitHub API error: " \o StatusString(response.status) \o " "
                    \o response.statusText)
    ELSE IF response.body = <<>> THEN Throw("SyntaxError: Unexpected token in JSON")
    ELSE Return(response.body[1])

\* checkFileExists without its try/catch: the error of githubRequest propagates
checkFileExistsNoCatch(response) ==
    IF githubRequest(response).threw THEN githubRequest(response) ELSE Return("true")

\* checkFileExists, given the response to its request
checkFileExists(response) ==
    IF githubRequest(response).threw THEN Return("false") ELSE Return("true")

\* checkDirectoryExists taking any successful answer for a directory
checkDirectoryExistsAnySuccess(response) ==
    IF githubRequest(response).threw THEN Return("false") ELSE Return("true")

\* checkDirectoryExists, given the response to its request
checkDirectoryExists(response) ==
    LET contents == githubRequest(response)
    IN  IF contents.threw THEN Return("false")
        ELSE Return(JsBool(contents.value[1].isArray))

\* atob(x.content): it throws when x has no content, else returns the text
Atob(json) ==
    IF json.isArray \/ json.fields = <<>> THEN Throw("InvalidCharacterError")
    ELSE IF "content" \notin DOMAIN json.fields[1] THEN Throw("InvalidCharacterError")
    ELSE Return(json.fields[1].content.data)

\* getReadmeContent, given the response: <<>> is null, <<text>> the lower-cased text
getReadmeContent(response) ==
    LET readme == githubRequest(response)
    IN  IF readme.threw THEN Return(<<>>)
        ELSE IF Atob(readme.value[1]).threw THEN Return(<<>>)
        ELSE Return(<<ToLowerCase(Atob(readme.value[1]).value[1])>>)

\* `readme && keywords.some(kw => readme.includes(kw))`
ReadmeHas(readme, keywords) ==
    IF readme = <<>> THEN "null"
    ELSE IF readme[1] = <<>> THEN ""
    ELSE JsBool(SomeKeyword(readme[1], keywords))

\* try { list = await githubRequest(...); list.length > 0 } catch { false }
TryListNonEmpty(response) ==
    LET list == githubRequest(response)
    IN  IF list.threw THEN Return("false")
        ELSE IF list.value[1].isArray THEN Return(JsBool(Len(list.value[1].items) > 0))
        ELSE Return("false")

(***************************************************************************)
(* parseGitHubUrl                                                          *)
(***************************************************************************)
\* what the user may type into the repository field and the token field
Inputs ==
    {[repoUrl |-> "", token |-> ""],
     [repoUrl |-> "   ", token |-> "ghp_secret"],
     [repoUrl |-> "not a url", token |-> ""],
     [repoUrl |-> "https://gitlab.com/OWASP/full", token |-> "ghp_secret"],
     [repoUrl |-> "https://github.com/OWASP", token |-> ""],
     [repoUrl |-> "https://github.com/OWASP/full", token |-> " ghp_secret "],
     [repoUrl |-> " https://github.com/alice/bare ", token |-> ""],
     [repoUrl |-> "https://www.github.com/bob/odd/", token |-> "   "],
     [repoUrl |-> "https://github.com/carol/nolicense", token |-> "ghp_secret"],
     [repoUrl |-> "https://github.com/dave/plain", token |-> ""],
     [repoUrl |-> "https://github.com/nobody/nothing", token |-> ""]}

\* String.prototype.trim
Trim(s) ==
    CASE s = "   " -> ""
      [] s = " ghp_secret " -> "ghp_secret"
      [] s = " https://github.com/alice/bare " -> "https://github.com/alice/bare"
      [] OTHER -> s

\* new URL(s): <<>> when it throws, else <<[hostname, pathname.split('/')]>>
NewURL(s) ==
    CASE s = "https://gitlab.com/OWASP/full" ->
            <<[hostname |-> "gitlab.com", parts |-> <<"", "OWASP", "full">>]>>
      [] s = "https://github.com/OWASP" ->
            <<[hostname |-> "github.com", parts |-> <<"", "OWASP">>]>>
      [] s = "https://github.com/OWASP/full" ->
            <<[hostname |-> "github.com", parts |-> <<"", "OWASP", "full">>]>>
      [] s = "https://github.com/alice/bare" ->
            <<[hostname |-> "github.com", parts |-> <<"", "alice", "bare">>]>>
      [] s = "https://github.com/OWASP/bare" ->
            <<[hostname |-> "github.com", parts |-> <<"", "OWASP", "bare">>]>>
      [] s = "https://www.github.com/bob/odd/" ->
            <<[hostname |-> "www.github.com", parts |-> <<"", "bob", "odd", "">>]>>
      [] s = "https://github.com/carol/nolicense" ->
            <<[hostname |-> "github.com", parts |-> <<"", "carol", "nolicense">>]>>
      [] s = "https://github.com/dave/plain" ->
            <<[hostname |-> "github.com", parts |-> <<"", "dave", "plain">>]>>
      [] s = "https://github.com/nobody/nothing" ->
            <<[hostname |-> "github.com", parts |-> <<"", "nobody", "nothing">>]>>
      [] OTHER -> <<>>

\* parts.filter(p => p)
RECURSIVE FilterNonEmpty(_)
FilterNonEmpty(parts) ==
    IF parts = <<>> THEN <<>>
    ELSE IF Head(parts) = "" THEN FilterNonEmpty(Tail(parts))
    ELSE <<Head(parts)>> \o FilterNonEmpty(Tail(parts))

InvalidUrlMessage ==
    "Invalid GitHub repository URL. Please use format: https://github.com/owner/repo"

\* parseGitHubUrl without its test of the host name
parseGitHubUrlAnyHost(url) ==
    LET urlObj == NewURL(Trim(url))
        pathParts == FilterNonEmpty(urlObj[1].parts)
    IN  IF urlObj = <<>> THEN Throw(InvalidUrlMessage)
        ELSE IF Len(pathParts) < 2 THEN Throw(InvalidUrlMessage)
        ELSE Return([owner |-> pathParts[1], repo |-> pathParts[2]])

\* parseGitHubUrl: every error inside the try is rethrown with one message
parseGitHubUrl(url) ==
    LET urlObj == NewURL(Trim(url))
        pathParts == FilterNonEmpty(urlObj[1].parts)
    IN  IF urlObj = <<>> THEN Throw(InvalidUrlMessage)
        ELSE IF urlObj[1].hostname # "github.com" /\ urlObj[1].hostname # "www.github.com"
        THEN Throw(InvalidUrlMessage)
        ELSE IF Len(pathParts) < 2 THEN Throw(InvalidUrlMessage)
        ELSE Return([owner |-> pathParts[1], repo |-> pathParts[2]])

\* String.prototype.toLowerCase on an owner name
LowerOwner(owner) == IF owner = "OWASP" THEN "owasp" ELSE owner

(***************************************************************************)
(* ComplianceChecker: constructor and addCheck                             *)
(***************************************************************************)
\* the maxScore the constructor writes into the report
InitialMaxScore == 100

\* new ComplianceChecker(owner, repo, token)
NewChecker(owner, repo, token) ==
    [owner |-> owner, repo |-> repo, token |-> token,
     results |-> [url |-> "https://github.com/" \o owner \o "/" \o repo,
                  score |-> 0, maxScore |-> InitialMaxScore, percentage |-> 0,
                  categories |-> <<>>],
     repoData |-> <<>>]

\* position of a category in results.categories (insertion order), 0 when absent
CategoryIndex(categories, category) ==
    IF \E i \in DOMAIN categories : categories[i].name = category
    THEN CHOOSE i \in DOMAIN categories : categories[i].name = category
    ELSE 0

\* addCheck counting the weight into the category maxScore only when the check passed
addCheckMaxScoreIfPassed(results, category, name, passed, points, details) ==
    LET present == IF CategoryIndex(results.categories, category) = 0
                   THEN Append(results.categories,
                               [name |-> category, checks |-> <<>>, score |-> 0,
                                maxScore |-> 0])
                   ELSE results.categories
        i == CategoryIndex(present, category)
        record == [name |-> name, passed |-> passed,
                   points |-> IF Truthy(passed) THEN points ELSE 0,
                   maxPoints |-> points, details |-> details]
    IN  [results EXCEPT
            !.score = IF Truthy(passed) THEN @ + points ELSE @,
            !.categories =
                [present EXCEPT
                    ![i] = [@ EXCEPT
                              !.score = IF Truthy(passed) THEN @ + points ELSE @,
                              !.maxScore = IF Truthy(passed) THEN @ + points ELSE @,
                              !.checks = Append(@, record)]]]

\* addCheck putting the record in front of the category's list (unshift for push)
addCheckUnshift(results, category, name, passed, points, details) ==
    LET present == IF CategoryIndex(results.categories, category) = 0
                   THEN Append(results.categories,
                               [name |-> category, checks |-> <<>>, score |-> 0,
                                maxScore |-> 0])
                   ELSE results.categories
        i == CategoryIndex(present, category)
        record == [name |-> name, passed |-> passed,
                   points |-> IF Truthy(passed) THEN points ELSE 0,
                   maxPoints |-> points, details |-> details]
    IN  [results EXCEPT
            !.score = IF Truthy(passed) THEN @ + points ELSE @,
            !.categories =
                [present EXCEPT
                    ![i] = [@ EXCEPT
                              !.score = IF Truthy(passed) THEN @ + points ELSE @,
                              !.maxScore = @ + points,
                              !.checks = <<record>> \o @]]]

\* addCheck granting the points of a check whatever its verdict
addCheckPointsAlways(results, category, name, passed, points, details) ==
    LET present == IF CategoryIndex(results.categories, category) = 0
                   THEN Append(results.categories,
                               [name |-> category, checks |-> <<>>, score |-> 0,
                                maxScore |-> 0])
                   ELSE results.categories
        i == CategoryIndex(present, category)
        record == [name |-> name, passed |-> passed, points |-> points,
                   maxPoints |-> points, details |-> details]
    IN  [results EXCEPT
            !.score = @ + points,
            !.categories =
                [present EXCEPT
                    ![i] = [@ EXCEPT
                              !.score = @ + points,
                              !.maxScore = @ + points,
                              !.checks = Append(@, record)]]]

\* addCheck without its `this.results.score += points`
addCheckCategoryOnly(results, category, name, passed, points, details) ==
    LET present == IF CategoryIndex(results.categories, category) = 0
                   THEN Append(results.categories,
                               [name |-> category, checks |-> <<>>, score |-> 0,
                                maxScore |-> 0])
                   ELSE results.categories
        i == CategoryIndex(present, category)
        record == [name |-> name, passed |-> passed,
                   points |-> IF Truthy(passed) THEN points ELSE 0,
                   maxPoints |-> points, details |-> details]
    IN  [results EXCEPT
            !.categories =
                [present EXCEPT
                    ![i] = [@ EXCEPT
                              !.score = IF Truthy(passed) THEN @ + points ELSE @,
                              !.maxScore = @ + points,
                              !.checks = Append(@, record)]]]

\* addCheck(category, name, passed, points, details) applied to this.results
addCheck(results, category, name, passed, points, details) ==
    LET present == IF CategoryIndex(results.categories, category) = 0
                   THEN Append(results.categories,
                               [name |-> category, checks |-> <<>>, score |-> 0,
                                maxScore |-> 0])
                   ELSE results.categories
        i == CategoryIndex(present, category)
        record == [name |-> name, passed |-> passed,
                   points |-> IF Truthy(passed) THEN points ELSE 0,
                   maxPoints |-> points, details |-> details]
    IN  [results EXCEPT
            !.score = IF Truthy(passed) THEN @ + points ELSE @,
            !.categories =
                [present EXCEPT
                    ![i] = [@ EXCEPT
                              !.score = IF Truthy(passed) THEN @ + points ELSE @,
                              !.maxScore = @ + points,
                              !.checks = Append(@, record)]]]

\* a call of addCheck that leaves out its details argument (details = '')
CheckNoDetails(name, passed, details) == [name |-> name, passed |-> passed, details |-> ""]

\* a check as the arguments of one addCheck call
Check(name, passed, details) == [name |-> name, passed |-> passed, details |-> details]

\* consecutive addCheck calls of one category, each of weight 1 (the report after
\* each call is bound as a value, so that it is computed once)
RECURSIVE AddChecks(_, _, _)
AddChecks(results, category, checks) ==
    IF checks = <<>> THEN results
    ELSE CHOOSE final \in
            {AddChecks(addCheck(r, category, c.name, c.passed, 1, c.details),
                       category, rest) :
                r \in {results}, c \in {Head(checks)}, rest \in {Tail(checks)}} : TRUE

(***************************************************************************)
(* The page and the run                                                    *)
(***************************************************************************)
NoLocals ==
    [hasSwagger |-> "false", hasOpenAPI |-> "false", hasFaq |-> "false",
     hasGHActions |-> "false", hasGitLabCI |-> "false", hasTravis |-> "false",
     contents |-> <<>>, i |-> 0]

Init ==
    /\ pc = "idle"
    /\ input \in Inputs
    /\ ui = [loading |-> FALSE, error |-> <<>>, shown |-> <<>>]
    /\ currentResults = <<>>
    /\ checker = <<>>
    /\ locals = NoLocals
    /\ returned = <<>>
    /\ thrown = <<>>
    /\ faults = 0
    /\ requests = <<>>
    /\ now = Today
    /\ other = <<>>
    /\ probe = <<>>

\* showError / hideError / setLoading on the page
showError(page, message) == [page EXCEPT !.error = <<message>>]

hideError(page) == [page EXCEPT !.error = <<>>]

setLoading(page, isLoading) == [page EXCEPT !.loading = isLoading]

\* this.owner, this.repo, this.token, this.results, this.repoData of the run
This == checker[1]

RepoData == This.repoData[1]

Ep(api, path) == Endpoint(This.owner, This.repo, api, path)

\* how a response is classified by githubRequest
Outcome(response) ==
    IF ~githubRequest(response).threw THEN "ok"
    ELSE IF response.status = 404 THEN "notFound"
    ELSE IF response.status = 403 /\ response.remaining = "0" THEN "rateLimited"
    ELSE "failed"

\* fetch(`${GITHUB_API_BASE}${endpoint}`, { headers }) issued at `site` and answered
Fetch(site, ep, kind) ==
    /\ requests' = Append(requests,
                          [site |-> site, endpoint |-> ep,
                           headers |-> RequestHeaders(This.token),
                           outcome |-> Outcome(Answer(kind, ep))])
    /\ faults' = IF kind = "genuine" THEN faults ELSE faults + 1

\* the run goes on to its next await with this.results = results
Proceed(results, nextPc, nextLocals) ==
    /\ checker' = <<[This EXCEPT !.results = results]>>
    /\ pc' = nextPc
    /\ locals' = nextLocals
    /\ UNCHANGED <<input, ui, currentResults, returned, thrown, now, other, probe>>

\* the catch block without the finally block: the page stays in its loading state
CatchErrorNoFinally(page, at, message) ==
    /\ thrown' = <<[at |-> at, message |-> message]>>
    /\ ui' = showError(page, message)
    /\ pc' = "done"
    /\ locals' = NoLocals
    /\ UNCHANGED <<input, currentResults, returned, now, other, probe>>

\* catch (error) { showError(error.message) } finally { setLoading(false) }
CatchError(page, at, message) ==
    /\ thrown' = <<[at |-> at, message |-> message]>>
    /\ ui' = setLoading(showError(page, message), FALSE)
    /\ pc' = "done"
    /\ locals' = NoLocals
    /\ UNCHANGED <<input, currentResults, returned, now, other, probe>>

\* runAllChecks with the percentage left as a fraction (the factor 100 dropped)
runAllChecksNoScale(results) ==
    [results EXCEPT !.percentage = MathRound(results.score, results.maxScore)]

\* the last lines of runAllChecks: the percentage, and the report it returns
runAllChecks(results) ==
    [results EXCEPT !.percentage = MathRound(results.score * 100, results.maxScore)]

\* displayResults(results): the global and the results section take the report
displayResults(page, results) == [page EXCEPT !.shown = <<results>>]

\* runAllChecks returns and checkCompliance displays the report
Resolve(results) ==
    /\ checker' = <<[This EXCEPT !.results = runAllChecks(results)]>>
    /\ returned' = <<runAllChecks(results)>>
    /\ currentResults' = <<runAllChecks(results)>>
    /\ ui' = setLoading(displayResults(ui, runAllChecks(results)), FALSE)
    /\ pc' = "done"
    /\ locals' = NoLocals
    /\ UNCHANGED <<input, thrown, now, other, probe>>

\* runAllChecks swallowing the error and returning what it has recorded so far
RejectReturnsPartial(results, at, message) == Resolve(results)

\* an error leaves runAllChecks with this.results = results
Reject(results, at, message) ==
    /\ checker' = <<[This EXCEPT !.results = results]>>
    /\ CatchError(ui, at, message)

\* checkCompliance up to its first await
checkCompliance ==
    /\ pc = "idle"
    /\ LET repoUrl == Trim(input.repoUrl)
           token == JsOr(Trim(input.token), "null")
           parsed == parseGitHubUrl(repoUrl)
       IN  IF ~Truthy(repoUrl)
           THEN /\ ui' = showError(hideError(ui), "Please enter a GitHub repository URL")
                /\ pc' = "done"
                /\ UNCHANGED <<checker, thrown, locals>>
           ELSE IF parsed.threw
           THEN /\ CatchError(setLoading(hideError(ui), TRUE), "parseGitHubUrl",
                              parsed.message)
                /\ UNCHANGED checker
           ELSE /\ ui' = setLoading(hideError(ui), TRUE)
                /\ checker' = <<NewChecker(parsed.value[1].owner, parsed.value[1].repo, token)>>
                /\ pc' = "fetchRepositoryData"
                /\ UNCHANGED <<thrown, locals>>
    /\ UNCHANGED <<input, currentResults, returned, faults, requests, now, other, probe>>

\* fetchRepositoryData: this.repoData = await githubRequest(`/repos/${owner}/${repo}`)
fetchRepositoryData ==
    /\ pc = "fetchRepositoryData"
    /\ \E kind \in AnswerKinds :
          LET ep == Ep("repo", "")
              data == githubRequest(Answer(kind, ep))
          IN  /\ Fetch("fetchRepositoryData", ep, kind)
              /\ IF data.threw
                 THEN Reject(This.results, "fetchRepositoryData", data.message)
                 ELSE /\ checker' = <<[This EXCEPT !.repoData = <<data.value[1].fields[1]>>]>>
                      /\ pc' = "general.readme"
                      /\ UNCHANGED <<input, ui, currentResults, returned, thrown, locals, now,
                                      other, probe>>

General == "General Compliance & Governance"

GoalKeywords == {"goal", "purpose", "about", "overview", "description"}

\* checkGeneralCompliance, checks 1-4: after the README arrived
GeneralReadme ==
    /\ pc = "general.readme"
    /\ \E kind \in AnswerKinds :
          LET ep == Ep("readme", "")
              got == getReadmeContent(Answer(kind, ep))
              readme == got.value[1]
              hasGoal == ReadmeHas(readme, GoalKeywords)
              r1 == addCheck(This.results, General, "Clearly defined project goal and scope",
                             hasGoal, 1, "Checked README for project description")
              hasLicense == JsBool(RepoData.license # "null")
              r4 == AddChecks(r1, General,
                      <<Check("Open-source license file present", hasLicense,
                              IF Truthy(hasLicense) THEN "License: " \o RepoData.license
                              ELSE "No license found"),
                        Check("README file provides project overview",
                              JsBool(readme # <<>>), ""),
                        Check("Under OWASP organization",
                              JsBool(LowerOwner(This.owner) = "owasp"),
                              "Repository owner: " \o This.owner)>>)
          IN  /\ Fetch("general.readme", ep, kind)
              /\ IF got.threw THEN Reject(This.results, "general.readme", got.message)
                 ELSE IF Truthy(hasLicense) /\ RepoData.license = "undefined"
                 THEN Reject(r1, "general.license",
                             "Cannot read properties of undefined (reading 'name')")
                 ELSE Proceed(r4, "general.contributing", NoLocals)

\* checks 5-6: after the CONTRIBUTING.md probe
GeneralContributing ==
    /\ pc = "general.contributing"
    /\ \E kind \in AnswerKinds :
          LET ep == Ep("contents", "CONTRIBUTING.md")
              hasContributing == checkFileExists(Answer(kind, ep))
          IN  /\ Fetch("general.contributing", ep, kind)
              /\ IF hasContributing.threw
                 THEN Reject(This.results, "general.contributing", hasContributing.message)
                 ELSE Proceed(AddChecks(This.results, General,
                                <<Check("Contribution guidelines (CONTRIBUTING.md)",
                                        hasContributing.value[1], ""),
                                  Check("Issue tracker is active", RepoData.has_issues,
                                        "Open issues: " \o RepoData.open_issues_count)>>),
                              "general.commits", NoLocals)

\* one check decided by one probe: the common shape of an await followed by addCheck
CheckAfter(site, ep, kind, result, category, name, nextPc) ==
    /\ pc = site
    /\ Fetch(site, ep, kind)
    /\ IF result.threw THEN Reject(This.results, site, result.message)
       ELSE Proceed(addCheck(This.results, category, name, result.value[1], 1, ""),
                    nextPc, NoLocals)

\* check 7: recent commits
GeneralCommits ==
    \E kind \in AnswerKinds :
        CheckAfter("general.commits", Ep("commits", ""), kind,
                   TryListNonEmpty(Answer(kind, Ep("commits", ""))), General,
                   "Active maintainers with recent commits", "general.coc")

\* check 8: Code of Conduct
GeneralCoc ==
    \E kind \in AnswerKinds :
        CheckAfter("general.coc", Ep("contents", "CODE_OF_CONDUCT.md"), kind,
                   checkFileExists(Answer(kind, Ep("contents", "CODE_OF_CONDUCT.md"))),
                   General, "Code of Conduct present", "general.roadmap")

\* check 9: roadmap
GeneralRoadmap ==
    \E kind \in AnswerKinds :
        CheckAfter("general.roadmap", Ep("contents", "ROADMAP.md"), kind,
                   checkFileExists(Answer(kind, Ep("contents", "ROADMAP.md"))),
                   General, "Project roadmap or milestones documented",
                   "general.collaborators")

\* check 10: collaborators
GeneralCollaborators ==
    \E kind \in AnswerKinds :
        CheckAfter("general.collaborators", Ep("collaborators", ""), kind,
                   TryListNonEmpty(Answer(kind, Ep("collaborators", ""))),
                   General, "Well-governed with active maintainers", "documentation.readme")

checkGeneralCompliance ==
    \/ GeneralReadme
    \/ GeneralContributing
    \/ GeneralCommits
    \/ GeneralCoc
    \/ GeneralRoadmap
    \/ GeneralCollaborators

Documentation == "Documentation & Usability"

InstallKeywords == {"install", "setup", "getting started", "quick start"}

UsageKeywords == {"usage", "example", "how to use", "tutorial"}

\* checkDocumentation, checks 11-12: after the README arrived (a second time)
DocumentationReadme ==
    /\ pc = "documentation.readme"
    /\ \E kind \in AnswerKinds :
          LET ep == Ep("readme", "")
              got == getReadmeContent(Answer(kind, ep))
              readme == got.value[1]
          IN  /\ Fetch("documentation.readme", ep, kind)
              /\ IF got.threw THEN Reject(This.results, "documentation.readme", got.message)
                 ELSE Proceed(AddChecks(This.results, Documentation,
                                <<Check("Installation guide in README",
                                        ReadmeHas(readme, InstallKeywords), ""),
                                  Check("Usage examples provided",
                                        ReadmeHas(readme, UsageKeywords), "")>>),
                              "documentation.docs", NoLocals)

\* check 13: hasWiki || hasDocs
DocumentationDocs ==
    /\ pc = "documentation.docs"
    /\ \E kind \in AnswerKinds :
          LET ep == Ep("contents", "docs")
              hasDocs == checkDirectoryExists(Answer(kind, ep))
          IN  /\ Fetch("documentation.docs", ep, kind)
              /\ IF hasDocs.threw
                 THEN Reject(This.results, "documentation.docs", hasDocs.message)
                 ELSE Proceed(addCheck(This.results, Documentation, "Wiki or docs/ directory",
                                       JsOr(RepoData.has_wiki, hasDocs.value[1]), 1, ""),
                              "documentation.swagger", NoLocals)

\* an await whose result is only stored in a local variable
StoreAfter(site, ep, kind, result, nextPc, nextLocals) ==
    /\ pc = site
    /\ Fetch(site, ep, kind)
    /\ IF result.threw THEN Reject(This.results, site, result.message)
       ELSE Proceed(This.results, nextPc, nextLocals)

DocumentationSwagger ==
    \E kind \in AnswerKinds :
        LET hasSwagger == checkFileExists(Answer(kind, Ep("contents", "swagger.yaml")))
        IN  StoreAfter("documentation.swagger", Ep("contents", "swagger.yaml"), kind,
                       hasSwagger, "documentation.openapi",
                       [locals EXCEPT !.hasSwagger = hasSwagger.value[1]])

DocumentationOpenAPI ==
    \E kind \in AnswerKinds :
        LET hasOpenAPI == checkFileExists(Answer(kind, Ep("contents", "openapi.yaml")))
        IN  StoreAfter("documentation.openapi", Ep("contents", "openapi.yaml"), kind,
                       hasOpenAPI, "documentation.apidocs",
                       [locals EXCEPT !.hasOpenAPI = hasOpenAPI.value[1]])

\* check 14: hasSwagger || hasOpenAPI || hasApiDocs
DocumentationApiDocs ==
    /\ pc = "documentation.apidocs"
    /\ \E kind \in AnswerKinds :
          LET ep == Ep("contents", "api-docs")
              hasApiDocs == checkDirectoryExists(Answer(kind, ep))
          IN  /\ Fetch("documentation.apidocs", ep, kind)
              /\ IF hasApiDocs.threw
                 THEN Reject(This.results, "documentation.apidocs", hasApiDocs.message)
                 ELSE Proceed(addCheck(This.results, Documentation,
                                       "API documentation available",
                                       JsOr(JsOr(locals.hasSwagger, locals.hasOpenAPI),
                                            hasApiDocs.value[1]), 1, ""),
                              "codeComments.contents", NoLocals)

\* the number of root entries checkCodeComments looks at
CommentScanLimit == 5

\* contents.slice(0, 5)
Slice(items) ==
    SubSeq(items, 1, IF Len(items) < CommentScanLimit THEN Len(items) ELSE CommentScanLimit)

\* item.type === 'file' && extensions.some(ext => item.name.endsWith(ext))
IsCodeFile(item) == item.type = "file" /\ ExtensionOf(item.name) \in CodeExtensions

\* the next entry at or after `from` whose file checkCodeComments fetches, 0 when none
NextCodeFile(items, from) ==
    IF \E j \in from..Len(items) : IsCodeFile(items[j])
    THEN CHOOSE j \in from..Len(items) :
            IsCodeFile(items[j]) /\ \A k \in from..(j - 1) : ~IsCodeFile(items[k])
    ELSE 0

\* content.includes('#') || content.includes('//') || content.includes('/*')
HasCommentMarker(content) ==
    Includes(content, "#") \/ Includes(content, "//") \/ Includes(content, "/*")

\* check 15 once checkCodeComments returned hasComments
AfterCodeComments(hasComments) ==
    Proceed(addCheck(This.results, Documentation, "Inline code comments present",
                     hasComments, 1, ""),
            "documentation.scripts", NoLocals)

\* checkCodeComments: the root listing arrived; the outer catch returns false
CodeCommentsContents ==
    /\ pc = "codeComments.contents"
    /\ \E kind \in AnswerKinds :
          LET ep == Ep("contents", "")
              contents == githubRequest(Answer(kind, ep))
              items == IF contents.threw THEN <<>>
                       ELSE IF ~contents.value[1].isArray THEN <<>>
                       ELSE Slice(contents.value[1].items)
          IN  /\ Fetch("codeComments.contents", ep, kind)
              /\ IF NextCodeFile(items, 1) = 0 THEN AfterCodeComments("false")
                 ELSE Proceed(This.results, "codeComments.file",
                              [NoLocals EXCEPT !.contents = items,
                                               !.i = NextCodeFile(items, 1)])

\* checkCodeComments: the file of entry i arrived; the inner catch continues the loop
CodeCommentsFile ==
    /\ pc = "codeComments.file"
    /\ \E kind \in AnswerKinds :
          LET ep == Ep("contents", locals.contents[locals.i].path)
              file == githubRequest(Answer(kind, ep))
              content == Atob(file.value[1])
              found == IF file.threw THEN FALSE
                       ELSE IF content.threw THEN FALSE
                       ELSE HasCommentMarker(content.value[1])
              j == NextCodeFile(locals.contents, locals.i + 1)
          IN  /\ Fetch("codeComments.file", ep, kind)
              /\ IF found THEN AfterCodeComments("true")
                 ELSE IF j = 0 THEN AfterCodeComments("false")
                 ELSE Proceed(This.results, "codeComments.file", [locals EXCEPT !.i = j])

\* check 16: scripts documentation
DocumentationScripts ==
    \E kind \in AnswerKinds :
        CheckAfter("documentation.scripts", Ep("contents", "scripts/README.md"), kind,
                   checkFileExists(Answer(kind, Ep("contents", "scripts/README.md"))),
                   Documentation, "Scripts and configuration documented",
                   "documentation.faq")

DocumentationFaq ==
    \E kind \in AnswerKinds :
        LET hasFaq == checkFileExists(Answer(kind, Ep("contents", "FAQ.md")))
        IN  StoreAfter("documentation.faq", Ep("contents", "FAQ.md"), kind, hasFaq,
                       "documentation.troubleshooting",
                       [locals EXCEPT !.hasFaq = hasFaq.value[1]])

\* checks 17-18: hasFaq || hasTroubleshooting, and the error-message attestation
DocumentationTroubleshooting ==
    /\ pc = "documentation.troubleshooting"
    /\ \E kind \in AnswerKinds :
          LET ep == Ep("contents", "TROUBLESHOOTING.md")
              hasTroubleshooting == checkFileExists(Answer(kind, ep))
          IN  /\ Fetch("documentation.troubleshooting", ep, kind)
              /\ IF hasTroubleshooting.threw
                 THEN Reject(This.results, "documentation.troubleshooting",
                             hasTroubleshooting.message)
                 ELSE Proceed(AddChecks(This.results, Documentation,
                                <<Check("FAQ or troubleshooting guide",
                                        JsOr(locals.hasFaq, hasTroubleshooting.value[1]), ""),
                                  Check("Well-defined error messages", "true",
                                        "Manual review recommended")>>),
                              "documentation.releases", NoLocals)

\* check 19: releases
DocumentationReleases ==
    \E kind \in AnswerKinds :
        CheckAfter("documentation.releases", Ep("releases", ""), kind,
                   TryListNonEmpty(Answer(kind, Ep("releases", ""))),
                   Documentation, "Clear versioning strategy", "documentation.changelog")

\* check 20: CHANGELOG; checkCodeQuality then starts its linter loop
DocumentationChangelog ==
    /\ pc = "documentation.changelog"
    /\ \E kind \in AnswerKinds :
          LET ep == Ep("contents", "CHANGELOG.md")
              hasChangelog == checkFileExists(Answer(kind, ep))
          IN  /\ Fetch("documentation.changelog", ep, kind)
              /\ IF hasChangelog.threw
                 THEN Reject(This.results, "documentation.changelog", hasChangelog.message)
                 ELSE Proceed(addCheck(This.results, Documentation, "CHANGELOG maintained",
                                       hasChangelog.value[1], 1, ""),
                              "codeQuality.linter", [NoLocals EXCEPT !.i = 1])

checkCodeComments ==
    \/ CodeCommentsContents
    \/ CodeCommentsFile

checkDocumentation ==
    \/ DocumentationReadme
    \/ DocumentationDocs
    \/ DocumentationSwagger
    \/ DocumentationOpenAPI
    \/ DocumentationApiDocs
    \/ checkCodeComments
    \/ DocumentationScripts
    \/ DocumentationFaq
    \/ DocumentationTroubleshooting
    \/ DocumentationReleases
    \/ DocumentationChangelog

CodeQuality == "Code Quality & Best Practices"

\* checks 21-22 once the linter loop ended with hasLinter
AfterLinters(hasLinter) ==
    Proceed(AddChecks(This.results, CodeQuality,
                      <<Check("Code follows style guide", hasLinter, ""),
                        Check("Uses linters", hasLinter, "")>>),
            "codeQuality.contents", NoLocals)

\* the linter loop probing the same file again instead of moving to the next one
CodeQualityLinterNoAdvance ==
    /\ pc = "codeQuality.linter"
    /\ \E kind \in AnswerKinds :
          LET ep == Ep("contents", LinterFiles[locals.i])
              exists == checkFileExists(Answer(kind, ep))
          IN  /\ Fetch("codeQuality.linter", ep, kind)
              /\ IF exists.threw THEN Reject(This.results, "codeQuality.linter", exists.message)
                 ELSE IF Truthy(exists.value[1]) THEN AfterLinters("true")
                 ELSE Proceed(This.results, "codeQuality.linter", locals)

\* the linter loop without its break: it goes on to the next file after a hit
CodeQualityLinterNoBreak ==
    /\ pc = "codeQuality.linter"
    /\ \E kind \in AnswerKinds :
          LET ep == Ep("contents", LinterFiles[locals.i])
              exists == checkFileExists(Answer(kind, ep))
          IN  /\ Fetch("codeQuality.linter", ep, kind)
              /\ IF exists.threw THEN Reject(This.results, "codeQuality.linter", exists.message)
                 ELSE IF locals.i = Len(LinterFiles) THEN AfterLinters(exists.value[1])
                 ELSE Proceed(This.results, "codeQuality.linter",
                              [locals EXCEPT !.i = locals.i + 1])

\* the linter loop: the probe of linterFiles[i] arrived
CodeQualityLinter ==
    /\ pc = "codeQuality.linter"
    /\ \E kind \in AnswerKinds :
          LET ep == Ep("contents", LinterFiles[locals.i])
              exists == checkFileExists(Answer(kind, ep))
          IN  /\ Fetch("codeQuality.linter", ep, kind)
              /\ IF exists.threw THEN Reject(This.results, "codeQuality.linter", exists.message)
                 ELSE IF Truthy(exists.value[1]) THEN AfterLinters("true")
                 ELSE IF locals.i = Len(LinterFiles) THEN AfterLinters("false")
                 ELSE Proceed(This.results, "codeQuality.linter",
                              [locals EXCEPT !.i = locals.i + 1])

\* contents.filter(item => item.type === 'dir').length >= 2 inside try/catch
TryIsModular(response) ==
    LET contents == githubRequest(response)
    IN  IF contents.threw THEN Return("false")
        ELSE IF ~contents.value[1].isArray THEN Return("false")
        ELSE Return(JsBool(Cardinality({j \in DOMAIN contents.value[1].items :
                                          contents.value[1].items[j].type = "dir"}) >= 2))

\* checks 23-30: modularity, then seven attestations
CodeQualityContents ==
    /\ pc = "codeQuality.contents"
    /\ \E kind \in AnswerKinds :
          LET ep == Ep("contents", "")
              modular == TryIsModular(Answer(kind, ep))
          IN  /\ Fetch("codeQuality.contents", ep, kind)
              /\ IF modular.threw
                 THEN Reject(This.results, "codeQuality.contents", modular.message)
                 ELSE Proceed(AddChecks(This.results, CodeQuality,
                                <<Check("Code is modular and maintainable",
                                        modular.value[1], ""),
                                  Check("Adheres to DRY principle", "true",
                                        "Manual code review recommended"),
                                  Check("Secure coding practices followed", "true",
                                        "Verified by security checks"),
                                  Check("No hardcoded credentials or secrets", "true",
                                        "Check with secret scanning"),
                                  Check("Uses parameterized queries", "true",
                                        "Verify manually for SQL databases"),
                                  Check("Strong cryptographic algorithms", "true",
                                        "Manual review recommended"),
                                  Check("Input validation implemented", "true",
                                        "Verified by security scanning"),
                                  Check("Output encoding for XSS prevention", "true",
                                        "Verified by security scanning")>>),
                              "security.security", NoLocals)

checkCodeQuality ==
    \/ CodeQualityLinter
    \/ CodeQualityContents

Security == "Security & OWASP Compliance"

\* check 31: SECURITY.md
SecuritySecurity ==
    \E kind \in AnswerKinds :
        CheckAfter("security.security", Ep("contents", "SECURITY.md"), kind,
                   checkFileExists(Answer(kind, Ep("contents", "SECURITY.md"))),
                   Security, "Security policy (SECURITY.md)", "security.dependabot")

\* checks 32-45: dependabot, then thirteen attestations
SecurityDependabot ==
    /\ pc = "security.dependabot"
    /\ \E kind \in AnswerKinds :
          LET ep == Ep("contents", ".github/dependabot.yml")
              hasDependabot == checkFileExists(Answer(kind, ep))
          IN  /\ Fetch("security.dependabot", ep, kind)
              /\ IF hasDependabot.threw
                 THEN Reject(This.results, "security.dependabot", hasDependabot.message)
                 ELSE Proceed(AddChecks(This.results, Security,
                                <<Check("Dependency scanning configured",
                                        hasDependabot.value[1], ""),
                                  Check("Uses secure headers (CSP, HSTS, etc.)", "true",
                                        "Manual review for web applications"),
                                  Check("Input validation enforced", "true",
                                        "Requires code review"),
                                  Check("RBAC implemented where applicable", "true",
                                        "Manual review recommended"),
                                  Check("Secure authentication mechanisms", "true",
                                        "Manual review recommended"),
                                  Check("Secrets stored securely", "true",
                                        "Check for .env.example"),
                                  Check("Uses HTTPS for communication", "true",
                                        "Manual verification needed"),
                                  Check("Adheres to OWASP ASVS", "true",
                                        "Requires security assessment"),
                                  Check("Secure cookie attributes", "true",
                                        "For web applications only"),
                                  Check("No unnecessary ports exposed", "true",
                                        "Manual infrastructure review"),
                                  Check("Logs security events", "true",
                                        "Verify logging implementation"),
                                  Check("Least privilege principle", "true",
                                        "Manual review recommended"),
                                  Check("No outdated/unsafe dependencies", "true",
                                        "Run dependency-check tools"),
                                  Check("Complies with OWASP Top 10", "true",
                                        "Requires security testing")>>),
                              "cicd.tests", NoLocals)

checkSecurity ==
    \/ SecuritySecurity
    \/ SecurityDependabot

CICD == "CI/CD & DevSecOps"

\* check 46 once the || chain of directory probes ended with hasTests
AfterCicdTests(hasTests) ==
    Proceed(addCheck(This.results, CICD, "Automated unit tests implemented", hasTests, 1, ""),
            "cicd.workflows", NoLocals)

Testing == "Testing & Validation"

\* checks 56-65 once hasTests is known
AfterTestingTests(hasTests) ==
    Proceed(AddChecks(This.results, Testing,
                      <<Check("Tests cover edge cases", hasTests, "Requires test review"),
                        Check("Unit, integration, and E2E tests", hasTests, ""),
                        Check("Uses mocks and stubs", hasTests, "Check test files"),
                        Check("Achieves 80%+ test coverage", hasTests, "Run coverage tools"),
                        Check("Tests validate input sanitization", hasTests, ""),
                        Check("Automated fuzz testing", "false", "Advanced feature"),
                        Check("Fails gracefully with error logging", "true",
                              "Manual verification"),
                        Check("No sensitive data in logs", "true", "Code review needed"),
                        Check("Uses dependency injection", "true", "Architecture review"),
                        Check("Regression tests for compatibility", hasTests, "")>>),
            "performance", NoLocals)

\* one operand of `await a || await b || ...`: a truthy result ends the chain
OrChain(site, ep, kind, result, nextPc, category, last) ==
    /\ pc = site
    /\ Fetch(site, ep, kind)
    /\ IF result.threw THEN Reject(This.results, site, result.message)
       ELSE IF Truthy(result.value[1]) \/ last
            THEN IF category = CICD THEN AfterCicdTests(result.value[1])
                 ELSE AfterTestingTests(result.value[1])
       ELSE Proceed(This.results, nextPc, NoLocals)

CicdTests ==
    \E kind \in AnswerKinds :
        OrChain("cicd.tests", Ep("contents", "tests"), kind,
                checkDirectoryExists(Answer(kind, Ep("contents", "tests"))),
                "cicd.test", CICD, FALSE)

CicdTest ==
    \E kind \in AnswerKinds :
        OrChain("cicd.test", Ep("contents", "test"), kind,
                checkDirectoryExists(Answer(kind, Ep("contents", "test"))),
                "cicd.__tests__", CICD, FALSE)

CicdUnderscoreTests ==
    \E kind \in AnswerKinds :
        OrChain("cicd.__tests__", Ep("contents", "__tests__"), kind,
                checkDirectoryExists(Answer(kind, Ep("contents", "__tests__"))),
                "cicd.workflows", CICD, TRUE)

CicdWorkflows ==
    \E kind \in AnswerKinds :
        LET hasGHActions ==
                checkDirectoryExists(Answer(kind, Ep("contents", ".github/workflows")))
        IN  StoreAfter("cicd.workflows", Ep("contents", ".github/workflows"), kind,
                       hasGHActions, "cicd.gitlab",
                       [locals EXCEPT !.hasGHActions = hasGHActions.value[1]])

CicdGitLab ==
    \E kind \in AnswerKinds :
        LET hasGitLabCI == checkFileExists(Answer(kind, Ep("contents", ".gitlab-ci.yml")))
        IN  StoreAfter("cicd.gitlab", Ep("contents", ".gitlab-ci.yml"), kind, hasGitLabCI,
                       "cicd.travis", [locals EXCEPT !.hasGitLabCI = hasGitLabCI.value[1]])

CicdTravis ==
    \E kind \in AnswerKinds :
        LET hasTravis == checkFileExists(Answer(kind, Ep("contents", ".travis.yml")))
        IN  StoreAfter("cicd.travis", Ep("contents", ".travis.yml"), kind, hasTravis,
                       "cicd.jenkins", [locals EXCEPT !.hasTravis = hasTravis.value[1]])

\* checks 47-55: hasCI and what is derived from it, then five attestations
CicdJenkins ==
    /\ pc = "cicd.jenkins"
    /\ \E kind \in AnswerKinds :
          LET ep == Ep("contents", "Jenkinsfile")
              hasJenkins == checkFileExists(Answer(kind, ep))
              hasCI == JsOr(JsOr(JsOr(locals.hasGHActions, locals.hasGitLabCI),
                                 locals.hasTravis), hasJenkins.value[1])
          IN  /\ Fetch("cicd.jenkins", ep, kind)
              /\ IF hasJenkins.threw
                 THEN Reject(This.results, "cicd.jenkins", hasJenkins.message)
                 ELSE Proceed(AddChecks(This.results, CICD,
                                <<Check("Continuous Integration configured", hasCI, ""),
                                  Check("CI/CD includes security scanning", hasCI,
                                        "Check workflow files for SAST/DAST"),
                                  Check("Dependency scanning automated", hasCI, ""),
                                  Check("Code coverage reports generated", hasCI,
                                        "Check for coverage tools in CI"),
                                  Check("Container security scanning", "true",
                                        "If using containers"),
                                  Check("IaC security checks", "true", "If using IaC tools"),
                                  Check("Secure secrets management in CI/CD", "true",
                                        "Verify no secrets in workflows"),
                                  Check("Environment configurations managed", "true",
                                        "Check for .env.example"),
                                  Check("Rollback mechanisms available", "true",
                                        "Manual deployment review")>>),
                              "testing.tests", NoLocals)

checkCICD ==
    \/ CicdTests
    \/ CicdTest
    \/ CicdUnderscoreTests
    \/ CicdWorkflows
    \/ CicdGitLab
    \/ CicdTravis
    \/ CicdJenkins

TestingTests ==
    \E kind \in AnswerKinds :
        OrChain("testing.tests", Ep("contents", "tests"), kind,
                checkDirectoryExists(Answer(kind, Ep("contents", "tests"))),
                "testing.test", Testing, FALSE)

TestingTest ==
    \E kind \in AnswerKinds :
        OrChain("testing.test", Ep("contents", "test"), kind,
                checkDirectoryExists(Answer(kind, Ep("contents", "test"))),
                "performance", Testing, TRUE)

checkTesting ==
    \/ TestingTests
    \/ TestingTest

Performance == "Performance & Scalability"

\* checks 66-75: no evidence is fetched
checkPerformance ==
    /\ pc = "performance"
    /\ Proceed(AddChecks(This.results, Performance,
                 <<Check("Code optimized for performance", "true", "Requires profiling"),
                   Check("Asynchronous processing where needed", "true",
                         "Architecture review"),
                   Check("Caching strategies implemented", "true",
                         "Check for cache configuration"),
                   Check("Optimized database queries", "true", "Database review needed"),
                   Check("Rate limiting to prevent abuse", "true", "For web services"),
                   Check("No memory leaks", "true", "Profiling required"),
                   Check("Load testing performed", "false", "Check for load test scripts"),
                   Check("Supports horizontal scaling", "true", "Architecture review"),
                   Check("Uses lazy loading", "true", "Manual code review"),
                   Check("Pagination for large datasets", "true", "API/UI review")>>),
               "logging", NoLocals)
    /\ UNCHANGED <<faults, requests>>

Logging == "Logging & Monitoring"

\* checks 76-85: no evidence is fetched
checkLogging ==
    /\ pc = "logging"
    /\ Proceed(AddChecks(This.results, Logging,
                 <<Check("Logging implemented", "true", "Check for logging framework"),
                   Check("Configurable log levels", "true", "Check configuration files"),
                   Check("Logs don't contain sensitive data", "true",
                         "Code review required"),
                   Check("Monitoring integration", "false", "Check for monitoring setup"),
                   Check("Structured logging format", "true",
                         "Check logging implementation"),
                   Check("Audit logs for security actions", "true",
                         "Security review needed"),
                   Check("Alerts configured", "false", "Manual infrastructure check"),
                   Check("Log rotation and archival", "true", "Operations review"),
                   Check("Incident response playbook", "false", "Check documentation"),
                   Check("Logging config separate from code", "true",
                         "Check for config files")>>),
               "community", NoLocals)
    /\ UNCHANGED <<faults, requests>>

Community == "Community & Support"

\* oneYearAgo.setFullYear(oneYearAgo.getFullYear() - 1)
OneYearBefore(d) ==
    CASE d = "2026-11-04" -> "2025-11-04"
      [] d = "2027-11-04" -> "2026-11-04"
      [] OTHER -> "undefined"

\* check 86, evaluated before checkCommunity's first await
CommunityStart ==
    /\ pc = "community"
    /\ Proceed(addCheck(This.results, Community, "Maintainers actively engage",
                        JsBool(RepoData.pushed_at # "null"), 1, ""),
               "community.security", NoLocals)
    /\ UNCHANGED <<faults, requests>>

\* checks 87-95: after the SECURITY.md probe (a second time)
CommunitySecurity ==
    /\ pc = "community.security"
    /\ \E kind \in AnswerKinds :
          LET ep == Ep("contents", "SECURITY.md")
              hasSecurity == checkFileExists(Answer(kind, ep))
              recentlyUpdated == JsBool(DateAfter(RepoData.pushed_at, OneYearBefore(now)))
          IN  /\ Fetch("community.security", ep, kind)
              /\ IF hasSecurity.threw
                 THEN Reject(This.results, "community.security", hasSecurity.message)
                 ELSE Proceed(AddChecks(This.results, Community,
                                <<Check("Security vulnerability reporting process",
                                        hasSecurity.value[1], ""),
                                  Check("Security policy file (SECURITY.md)",
                                        hasSecurity.value[1], ""),
                                  Check("Community guidelines present", "true",
                                        "Check CODE_OF_CONDUCT.md"),
                                  Check("Responsive to security issues", "true",
                                        "Check issue response time"),
                                  Check("Regular project updates", recentlyUpdated,
                                        "Last update: "
                                            \o ToLocaleDateString(RepoData.pushed_at)),
                                  Check("Multiple support channels", RepoData.has_discussions,
                                        IF Truthy(RepoData.has_discussions)
                                        THEN "GitHub Discussions enabled"
                                        ELSE "Check for other channels"),
                                  Check("Clear escalation path", "true", "Check SECURITY.md"),
                                  Check("PR reviews before merging", "true",
                                        "Check branch protection"),
                                  Check("Good issue tracking hygiene", "true",
                                        "Open issues: " \o RepoData.open_issues_count)>>),
                              "legal", NoLocals)

checkCommunity ==
    \/ CommunityStart
    \/ CommunitySecurity

Legal == "Legal & Compliance"

\* checks 96-98, evaluated before checkLegal's first await
LegalStart ==
    /\ pc = "legal"
    /\ LET hasLicense == JsBool(RepoData.license # "null")
       IN  Proceed(AddChecks(This.results, Legal,
                     <<Check("GDPR/CCPA compliance", "true", "Manual legal review needed"),
                       Check("Dependencies properly licensed", hasLicense,
                             "Check third-party licenses"),
                       Check("No proprietary/restricted code", hasLicense, "")>>),
                   "legal.privacy", NoLocals)
    /\ UNCHANGED <<faults, requests>>

\* check 99: PRIVACY.md
LegalPrivacy ==
    \E kind \in AnswerKinds :
        CheckAfter("legal.privacy", Ep("contents", "PRIVACY.md"), kind,
                   checkFileExists(Answer(kind, Ep("contents", "PRIVACY.md"))),
                   Legal, "Users informed of data collection", "legal.security")

\* check 100: SECURITY.md (a third time); then the run ends
LegalSecurity ==
    /\ pc = "legal.security"
    /\ \E kind \in AnswerKinds :
          LET ep == Ep("contents", "SECURITY.md")
              hasSecurity == checkFileExists(Answer(kind, ep))
          IN  /\ Fetch("legal.security", ep, kind)
              /\ IF hasSecurity.threw
                 THEN Reject(This.results, "legal.security", hasSecurity.message)
                 ELSE Resolve(addCheck(This.results, Legal, "Responsible disclosure policy",
                                       hasSecurity.value[1], 1, ""))

checkLegal ==
    \/ LegalStart
    \/ LegalPrivacy
    \/ LegalSecurity

Next ==
    \/ checkCompliance
    \/ fetchRepositoryData
    \/ checkGeneralCompliance
    \/ checkDocumentation
    \/ checkCodeQuality
    \/ checkSecurity
    \/ checkCICD
    \/ checkTesting
    \/ checkPerformance
    \/ checkLogging
    \/ checkCommunity
    \/ checkLegal

Spec == Init /\ [][Next]_vars

\* every request receives a response and the event loop resumes the invocation that
\* awaits it: a step that stays possible is eventually taken
FairSpec == Spec /\ WF_vars(Next)

(***************************************************************************)
(* Two invocations of checkCompliance on one page.  checkCompliance is a   *)
(* global async function: each call builds its own ComplianceChecker and   *)
(* runs until its next await, where the event loop may resume the other    *)
(* call.  The page, the global currentResults, the clock and the remote    *)
(* are shared; everything else belongs to one invocation.                  *)
(***************************************************************************)
\* the state one invocation owns
Context ==
    [pc |-> pc, input |-> input, checker |-> checker, locals |-> locals,
     returned |-> returned, thrown |-> thrown, requests |-> requests]

\* the event loop resumes the other invocation at the await it is suspended at
Switch ==
    /\ other # <<>>
    /\ other[1].pc # "done"
    /\ other' = <<Context>>
    /\ pc' = other[1].pc
    /\ input' = other[1].input
    /\ checker' = other[1].checker
    /\ locals' = other[1].locals
    /\ returned' = other[1].returned
    /\ thrown' = other[1].thrown
    /\ requests' = other[1].requests
    /\ UNCHANGED <<ui, currentResults, faults, now, probe>>

\* time passes: a later `new Date()` reads a later date
Tick ==
    /\ now = Today
    /\ now' = NextYear
    /\ UNCHANGED <<pc, input, ui, currentResults, checker, locals, returned, thrown, faults,
                   requests, other, probe>>

FullInput == [repoUrl |-> "https://github.com/OWASP/full", token |-> " ghp_secret "]

BareInput == [repoUrl |-> " https://github.com/alice/bare ", token |-> ""]

OddInput == [repoUrl |-> "https://www.github.com/bob/odd/", token |-> "   "]

BareKeptInput == [repoUrl |-> "https://github.com/OWASP/bare", token |-> ""]

\* the repository fields of the two invocations: the same repository twice, or two
\* different ones
TwinInputs ==
    {<<FullInput, FullInput>>, <<FullInput, BareInput>>, <<OddInput, OddInput>>,
     <<BareInput, BareKeptInput>>}

\* two invocations about to start; the remote answers every request from the
\* repository it holds, the same request always the same way
TwinInit ==
    /\ \E pair \in TwinInputs :
          /\ input = pair[1]
          /\ other = <<[pc |-> "idle", input |-> pair[2], checker |-> <<>>,
                        locals |-> NoLocals, returned |-> <<>>, thrown |-> <<>>,
                        requests |-> <<>>]>>
    /\ pc = "idle"
    /\ ui = [loading |-> FALSE, error |-> <<>>, shown |-> <<>>]
    /\ currentResults = <<>>
    /\ checker = <<>>
    /\ locals = NoLocals
    /\ returned = <<>>
    /\ thrown = <<>>
    /\ faults = MaxFaults
    /\ requests = <<>>
    /\ now = Today
    /\ probe = <<>>

TwinNext ==
    \/ Next
    \/ Switch
    \/ Tick

SpecTwin == TwinInit /\ [][TwinNext]_vars

(***************************************************************************)
(* githubRequest and the probes built on it, called directly on each       *)
(* response a remote can give to one request                               *)
(***************************************************************************)
\* the statuses, the X-RateLimit-Remaining headers ("null": no such header) and the
\* payloads (<<>>: not JSON) of a response
Statuses == {200, 401, 403, 404, 429, 500}

StatusText(status) ==
    CASE status = 200 -> "OK" [] status = 401 -> "Unauthorized" [] status = 403 -> "Forbidden"
      [] status = 404 -> "Not Found" [] status = 429 -> "Too Many Requests"
      [] OTHER -> "Internal Server Error"

RemainingHeaders == {"0", "1", "59", "null"}

Payloads ==
    {<<>>,
     <<JsonObject([message |-> "API message"])>>,
     <<JsonObject([type |-> "file", content |-> Btoa(<<"Overview", "Installation">>)])>>,
     <<JsonArray(<<>>)>>,
     <<JsonArray(<<Item("file", "index.js"), Item("dir", "src")>>)>>}

Responses ==
    {Response(status, StatusText(status), remaining, body) :
        status \in Statuses, remaining \in RemainingHeaders, body \in Payloads}

\* fetch() has resolved with some response; no function has consumed it yet
ProbeInit ==
    /\ probe \in {<<[fn |-> "", response |-> response, outcome |-> <<>>]>> :
                     response \in Responses}
    /\ pc = "idle"
    /\ input = FullInput
    /\ ui = [loading |-> FALSE, error |-> <<>>, shown |-> <<>>]
    /\ currentResults = <<>>
    /\ checker = <<>>
    /\ locals = NoLocals
    /\ returned = <<>>
    /\ thrown = <<>>
    /\ faults = 0
    /\ requests = <<>>
    /\ now = Today
    /\ other = <<>>

\* function `fn` runs on the response and ends with `outcome`
Call(fn, outcome) ==
    /\ probe # <<>>
    /\ probe[1].fn = ""
    /\ probe' = <<[probe[1] EXCEPT !.fn = fn, !.outcome = <<outcome>>]>>
    /\ UNCHANGED <<pc, input, ui, currentResults, checker, locals, returned, thrown, faults,
                   requests, now, other>>

CallGithubRequest == Call("githubRequest", githubRequest(probe[1].response))

CallCheckFileExists == Call("checkFileExists", checkFileExists(probe[1].response))

CallCheckDirectoryExists ==
    Call("checkDirectoryExists", checkDirectoryExists(probe[1].response))

CallGetReadmeContent == Call("getReadmeContent", getReadmeContent(probe[1].response))

ProbeNext ==
    \/ CallGithubRequest
    \/ CallCheckFileExists
    \/ CallCheckDirectoryExists
    \/ CallGetReadmeContent

SpecProbe == ProbeInit /\ [][ProbeNext]_vars

(***************************************************************************)
(* A remote that may leave a request unanswered.  githubRequest awaits     *)
(* fetch() with no timeout and no abort signal, so the promise of such a   *)
(* request never settles and the invocation is never resumed.              *)
(***************************************************************************)
\* the await points of a run that wait for no response of the remote
LocalSites == {"performance", "logging", "community", "legal"}

\* the invocation is suspended at a fetch
AwaitingFetch == pc \notin {"idle", "done", "unanswered"} \cup LocalSites

\* the request the invocation is waiting for never receives a response
NoResponse ==
    /\ AwaitingFetch
    /\ pc' = "unanswered"
    /\ UNCHANGED <<input, ui, currentResults, checker, locals, returned, thrown, faults,
                   requests, now, other, probe>>

HangNext ==
    \/ Next
    \/ NoResponse

SpecHang == Init /\ [][HangNext]_vars

(***************************************************************************)
(* The rubric: the categories in the order runAllChecks runs them and the  *)
(* checks of each in the order of their addCheck calls                     *)
(***************************************************************************)
RubricCategories ==
    <<General, Documentation, CodeQuality, Security, CICD, Testing, Performance, Logging,
      Community, Legal>>

RubricChecks ==
    <<
        <<"Clearly defined project goal and scope",
          "Open-source license file present",
          "README file provides project overview",
          "Under OWASP organization",
          "Contribution guidelines (CONTRIBUTING.md)",
          "Issue tracker is active",
          "Active maintainers with recent commits",
          "Code of Conduct present",
          "Project roadmap or milestones documented",
          "Well-governed with active maintainers">>,
        <<"Installation guide in README",
          "Usage examples provided",
          "Wiki or docs/ directory",
          "API documentation available",
          "Inline code comments present",
          "Scripts and configuration documented",
          "FAQ or troubleshooting guide",
          "Well-defined error messages",
          "Clear versioning strategy",
          "CHANGELOG maintained">>,
        <<"Code follows style guide",
          "Uses linters",
          "Code is modular and maintainable",
          "Adheres to DRY principle",
          "Secure coding practices followed",
          "No hardcoded credentials or secrets",
          "Uses parameterized queries",
          "Strong cryptographic algorithms",
          "Input validation implemented",
          "Output encoding for XSS prevention">>,
        <<"Security policy (SECURITY.md)",
          "Dependency scanning configured",
          "Uses secure headers (CSP, HSTS, etc.)",
          "Input validation enforced",
          "RBAC implemented where applicable",
          "Secure authentication mechanisms",
          "Secrets stored securely",
          "Uses HTTPS for communication",
          "Adheres to OWASP ASVS",
          "Secure cookie attributes",
          "No unnecessary ports exposed",
          "Logs security events",
          "Least privilege principle",
          "No outdated/unsafe dependencies",
          "Complies with OWASP Top 10">>,
        <<"Automated unit tests implemented",
          "Continuous Integration configured",
          "CI/CD includes security scanning",
          "Dependency scanning automated",
          "Code coverage reports generated",
          "Container security scanning",
          "IaC security checks",
          "Secure secrets management in CI/CD",
          "Environment configurations managed",
          "Rollback mechanisms available">>,
        <<"Tests cover edge cases",
          "Unit, integration, and E2E tests",
          "Uses mocks and stubs",
          "Achieves 80%+ test coverage",
          "Tests validate input sanitization",
          "Automated fuzz testing",
          "Fails gracefully with error logging",
          "No sensitive data in logs",
          "Uses dependency injection",
          "Regression tests for compatibility">>,
        <<"Code optimized for performance",
          "Asynchronous processing where needed",
          "Caching strategies implemented",
          "Optimized database queries",
          "Rate limiting to prevent abuse",
          "No memory leaks",
          "Load testing performed",
          "Supports horizontal scaling",
          "Uses lazy loading",
          "Pagination for large datasets">>,
        <<"Logging implemented",
          "Configurable log levels",
          "Logs don't contain sensitive data",
          "Monitoring integration",
          "Structured logging format",
          "Audit logs for security actions",
          "Alerts configured",
          "Log rotation and archival",
          "Incident response playbook",
          "Logging config separate from code">>,
        <<"Maintainers actively engage",
          "Security vulnerability reporting process",
          "Security policy file (SECURITY.md)",
          "Community guidelines present",
          "Responsive to security issues",
          "Regular project updates",
          "Multiple support channels",
          "Clear escalation path",
          "PR reviews before merging",
          "Good issue tracking hygiene">>,
        <<"GDPR/CCPA compliance",
          "Dependencies properly licensed",
          "No proprietary/restricted code",
          "Users informed of data collection",
          "Responsible disclosure policy">>>>

\* the weight every addCheck call of the rubric passes
CheckWeight == 1

RECURSIVE SumLen(_)
SumLen(seqs) == IF seqs = <<>> THEN 0 ELSE Len(Head(seqs)) + SumLen(Tail(seqs))

\* the sum of the weights of all checks of the rubric
RubricWeight == CheckWeight * SumLen(RubricChecks)

(***************************************************************************)
(* Reading a report                                                        *)
(***************************************************************************)
RECURSIVE SumUpTo(_, _, _)
SumUpTo(seq, field, n) ==
    IF n = 0 THEN 0 ELSE seq[n][field] + SumUpTo(seq, field, n - 1)

SumOf(seq, field) == SumUpTo(seq, field, Len(seq))

RECURSIVE Flatten(_)
Flatten(categories) ==
    IF categories = <<>> THEN <<>>
    ELSE Head(categories).checks \o Flatten(Tail(categories))

\* every check record of a report, in report order
ChecksOf(results) == Flatten(results.categories)

Names(seq) == [i \in DOMAIN seq |-> seq[i].name]

\* the report holds every category and every check of the rubric
Complete(results) ==
    /\ {results.categories[i].name : i \in DOMAIN results.categories}
           = {RubricCategories[i] : i \in DOMAIN RubricCategories}
    /\ \A i \in DOMAIN results.categories :
          \A k \in DOMAIN RubricCategories :
             results.categories[i].name = RubricCategories[k] =>
                {results.categories[i].checks[j].name :
                    j \in DOMAIN results.categories[i].checks}
                  = {RubricChecks[k][j] : j \in DOMAIN RubricChecks[k]}
    /\ Len(ChecksOf(results)) = SumLen(RubricChecks)

\* runAllChecks has returned a report
Returned == returned # <<>>

\* some request of the run was answered with a failure other than 404
SomeFetchFailed ==
    \E i \in DOMAIN requests : requests[i].outcome \in {"failed", "rateLimited"}

\* the places where an error may leave the try block of checkCompliance
InputErrorSite == "parseGitHubUrl"

MetadataSite == "fetchRepositoryData"

EvaluationSites == {"general.license"}

(***************************************************************************)
(* addCheck on its own: a checker whose metadata has arrived records checks *)
(* with arguments of every kind                                            *)
(***************************************************************************)
\* the number of addCheck calls followed
MaxCalls == 3

PassedValues == {"true", "false", "null"}

Weights == {1, 2}

CheckNames == {"Open-source license file present", "Responsible disclosure policy"}

CallCategories == {General, Legal}

\* the checker of a run on OWASP/full after its constructor and fetchRepositoryData
AddCheckInit ==
    /\ checker = <<[NewChecker("OWASP", "full", "ghp_secret")
                      EXCEPT !.repoData = <<Repository("OWASP", "full").meta>>]>>
    /\ probe = <<>>
    /\ pc = "general.readme"
    /\ input = FullInput
    /\ ui = [loading |-> TRUE, error |-> <<>>, shown |-> <<>>]
    /\ currentResults = <<>>
    /\ locals = NoLocals
    /\ returned = <<>>
    /\ thrown = <<>>
    /\ faults = 0
    /\ requests = <<[site |-> "fetchRepositoryData",
                     endpoint |-> Endpoint("OWASP", "full", "repo", ""),
                     headers |-> RequestHeaders("ghp_secret"), outcome |-> "ok"]>>
    /\ now = Today
    /\ other = <<>>

\* this.addCheck(category, name, passed, points, details); probe keeps the call
\* and the checker it was made on
CallAddCheck ==
    /\ Len(ChecksOf(This.results)) < MaxCalls
    /\ \E category \in CallCategories, name \in CheckNames, passed \in PassedValues,
          points \in Weights :
          /\ checker' = <<[This EXCEPT
                              !.results = addCheck(This.results, category, name, passed,
                                                   points, "")]>>
          /\ probe' = <<[fn |-> "addCheck", category |-> category, name |-> name,
                         passed |-> passed, points |-> points, before |-> This]>>
    /\ UNCHANGED <<pc, input, ui, currentResults, locals, returned, thrown, faults,
                   requests, now, other>>

AddCheckNext == CallAddCheck

SpecAddCheck == AddCheckInit /\ [][AddCheckNext]_vars

C2_FaultIsolation ==
    (pc = "done" /\ thrown # <<>> /\ thrown[1].at \in EvaluationSites) =>
        /\ Returned
        /\ Complete(returned[1])
        /\ \E i \in DOMAIN ChecksOf(returned[1]) :
              /\ ChecksOf(returned[1])[i].name = "Open-source license file present"
              /\ ChecksOf(returned[1])[i].passed = "false"

(***************************************************************************)
(* C3                                                                      *)
(***************************************************************************)
\* C3: in every report runAllChecks returns, maxScore equals the sum of the weights
\* of all checks of the rubric, the sum of the category maxScore values and the sum
\* of the maxPoints of all check records, whatever the remote answered.
C3_MaxScoreIsRubricWeight ==
    Returned =>
        /\ returned[1].maxScore = RubricWeight
        /\ returned[1].maxScore = SumOf(returned[1].categories, "maxScore")
        /\ returned[1].maxScore = SumOf(ChecksOf(returned[1]), "maxPoints")

\* a report was returned by a run in which a check failed on a failed fetch
C3_ReportWithFailedEvidence ==
    /\ Returned
    /\ SomeFetchFailed
    /\ returned[1].score < returned[1].maxScore

(***************************************************************************)
(* C4                                                                      *)
(***************************************************************************)
\* C4: in every report runAllChecks returns, percentage is 100 * score / maxScore
\* rounded to the nearest integer (halves up) and lies between 0 and 100.
C4_PercentageRounded ==
    Returned =>
        /\ 2 * returned[1].percentage * returned[1].maxScore
              <= 200 * returned[1].score + returned[1].maxScore
        /\ 200 * returned[1].score + returned[1].maxScore
              < 2 * (returned[1].percentage + 1) * returned[1].maxScore
        /\ returned[1].percentage >= 0
        /\ returned[1].percentage <= 100

\* a report with a percentage strictly between 0 and 100 was returned
C4_ReportWithPartialScore ==
    Returned /\ returned[1].percentage > 0 /\ returned[1].percentage < 100

(***************************************************************************)
(* C5                                                                      *)
(***************************************************************************)
\* C5: within one run no endpoint is fetched more than once.
C5_OneFetchPerEndpoint ==
    \A i, j \in DOMAIN requests :
        i # j => requests[i].endpoint # requests[j].endpoint

(***************************************************************************)
(* C6                                                                      *)
(***************************************************************************)
\* C6: once a fetch of the run was answered with the rate-limit condition, the run
\* issues no further fetch: a rate-limited request can only be the last one.
C6_NoFetchAfterRateLimit ==
    \A i \in DOMAIN requests :
        requests[i].outcome = "rateLimited" => i = Len(requests)

(***************************************************************************)
(* C7                                                                      *)
(***************************************************************************)
\* the await points whose fetch decides the check of that name
EvidenceSites(name) ==
    CASE name \in {"Clearly defined project goal and scope",
                   "README file provides project overview"} -> {"general.readme"}
      [] name = "Contribution guidelines (CONTRIBUTING.md)" -> {"general.contributing"}
      [] name = "Active maintainers with recent commits" -> {"general.commits"}
      [] name = "Code of Conduct present" -> {"general.coc"}
      [] name = "Project roadmap or milestones documented" -> {"general.roadmap"}
      [] name = "Well-governed with active maintainers" -> {"general.collaborators"}
      [] name \in {"Installation guide in README", "Usage examples provided"} ->
            {"documentation.readme"}
      [] name = "Wiki or docs/ directory" -> {"documentation.docs"}
      [] name = "API documentation available" ->
            {"documentation.swagger", "documentation.openapi", "documentation.apidocs"}
      [] name = "Inline code comments present" ->
            {"codeComments.contents", "codeComments.file"}
      [] name = "Scripts and configuration documented" -> {"documentation.scripts"}
      [] name = "FAQ or troubleshooting guide" ->
            {"documentation.faq", "documentation.troubleshooting"}
      [] name = "Clear versioning strategy" -> {"documentation.releases"}
      [] name = "CHANGELOG maintained" -> {"documentation.changelog"}
      [] name \in {"Code follows style guide", "Uses linters"} -> {"codeQuality.linter"}
      [] name = "Code is modular and maintainable" -> {"codeQuality.contents"}
      [] name = "Security policy (SECURITY.md)" -> {"security.security"}
      [] name = "Dependency scanning configured" -> {"security.dependabot"}
      [] name = "Automated unit tests implemented" ->
            {"cicd.tests", "cicd.test", "cicd.__tests__"}
      [] name \in {"Continuous Integration configured", "CI/CD includes security scanning",
                   "Dependency scanning automated", "Code coverage reports generated"} ->
            {"cicd.workflows", "cicd.gitlab", "cicd.travis", "cicd.jenkins"}
      [] name \in {"Tests cover edge cases", "Unit, integration, and E2E tests",
                   "Uses mocks and stubs", "Achieves 80%+ test coverage",
                   "Tests validate input sanitization",
                   "Regression tests for compatibility"} ->
            {"testing.tests", "testing.test"}
      [] name \in {"Security vulnerability reporting process",
                   "Security policy file (SECURITY.md)"} -> {"community.security"}
      [] name = "Users informed of data collection" -> {"legal.privacy"}
      [] name = "Responsible disclosure policy" -> {"legal.security"}
      [] OTHER -> {}

\* the outcomes of the failed fetches among those that decided the check
FailedEvidence(name) ==
    {requests[i].outcome : i \in {k \in DOMAIN requests :
        /\ requests[k].site \in EvidenceSites(name)
        /\ requests[k].outcome \in {"failed", "rateLimited"}}}

\* C7: a check that does not pass and whose evidence could not be fetched is recorded
\* with passed = false and non-empty details, and the details read "rate limited"
\* when the fetch was rate limited.
C7_FailedEvidenceExplained ==
    checker # <<>> =>
        \A i \in DOMAIN ChecksOf(This.results) :
            LET check == ChecksOf(This.results)[i]
            IN  (~Truthy(check.passed) /\ FailedEvidence(check.name) # {}) =>
                    /\ check.passed = "false"
                    /\ check.details # ""
                    /\ "rateLimited" \in FailedEvidence(check.name) =>
                           check.details = "rate limited"

(***************************************************************************)
(* C8                                                                      *)
(***************************************************************************)
\* C8: the caller gets a report holding every category and every check of the
\* rubric, or an error and no report: what runAllChecks returns, what displayResults
\* shows and what it stores in currentResults is a complete report, and nothing is
\* returned, shown or stored when the run ended with an error.
C8_FullReportOrError ==
    /\ Returned => Complete(returned[1])
    /\ ui.shown # <<>> => (Returned /\ ui.shown = returned)
    /\ currentResults # <<>> => (Returned /\ currentResults = returned)
    /\ thrown # <<>> => (~Returned /\ ui.shown = <<>> /\ currentResults = <<>>)
    /\ (pc = "done" /\ checker # <<>>) => (Returned \/ thrown # <<>>)
    /\ (pc = "done" /\ Returned) => ui.shown = returned

\* a run ended with an error after it had recorded some checks, and shows nothing
C8_ErrorAfterSomeChecks ==
    /\ pc = "done"
    /\ thrown # <<>>
    /\ checker # <<>>
    /\ This.results.categories # <<>>
    /\ ui.shown = <<>>

(***************************************************************************)
(* C9                                                                      *)
(***************************************************************************)
\* C9: the passed field of every check record is exactly true or exactly false.
C9_VerdictIsBoolean ==
    checker # <<>> =>
        \A i \in DOMAIN ChecksOf(This.results) :
            ChecksOf(This.results)[i].passed \in {"true", "false"}

(***************************************************************************)
(* C10                                                                     *)
(***************************************************************************)
\* C10: in every report the categories appear in registration order and the checks
\* of each category appear in registration order; while a run is in progress the
\* categories and checks recorded so far are a prefix of that order.
C10_RegistrationOrder ==
    /\ Returned =>
          /\ Names(returned[1].categories) = RubricCategories
          /\ \A i \in DOMAIN returned[1].categories :
                Names(returned[1].categories[i].checks) = RubricChecks[i]
    /\ checker # <<>> =>
          /\ Len(This.results.categories) <= Len(RubricCategories)
          /\ \A i \in DOMAIN This.results.categories :
                LET category == This.results.categories[i]
                IN  /\ category.name = RubricCategories[i]
                    /\ Len(category.checks) <= Len(RubricChecks[i])
                    /\ Names(category.checks)
                          = SubSeq(RubricChecks[i], 1, Len(category.checks))

\* a report was returned by a run whose directory probes took the long way
\* (tests absent, the later alternatives probed) and one of whose fetches failed
C10_ReportAfterLongProbeChain ==
    /\ Returned
    /\ \E i \in DOMAIN requests : requests[i].site = "cicd.__tests__"
    /\ \E i \in DOMAIN requests : requests[i].outcome = "rateLimited"

(***************************************************************************)
(* C11                                                                     *)
(***************************************************************************)
\* both invocations were given the same repository reference
SameReference ==
    /\ checker # <<>> /\ other # <<>> /\ other[1].checker # <<>>
    /\ checker[1].owner = other[1].checker[1].owner
    /\ checker[1].repo = other[1].checker[1].repo

\* the remote answered identical requests identically, within and across the two
\* invocations
IdenticalAnswers ==
    LET all == requests \o other[1].requests
    IN  \A i, j \in DOMAIN all :
           all[i].endpoint = all[j].endpoint => all[i].outcome = all[j].outcome

\* the detail strings that state a date
TimeRelative(check) == check.name = "Regular project updates"

\* a report with its time-relative detail strings blanked
WithoutTimeRelativeDetails(results) ==
    [results EXCEPT
        !.categories =
            [i \in DOMAIN @ |->
                [@[i] EXCEPT
                    !.checks =
                        [j \in DOMAIN @ |->
                            IF TimeRelative(@[j]) THEN [@[j] EXCEPT !.details = ""]
                            ELSE @[j]]]]]

\* C11: two runs on the same repository reference against a remote that gives
\* identical answers to identical requests return identical reports (score,
\* percentage, categories, verdicts, points), the time-relative detail strings
\* excepted.
C11_IdenticalReports ==
    (SameReference /\ returned # <<>> /\ other[1].returned # <<>> /\ IdenticalAnswers)
        => WithoutTimeRelativeDetails(returned[1])
               = WithoutTimeRelativeDetails(other[1].returned[1])

(***************************************************************************)
(* C12                                                                     *)
(***************************************************************************)
RateLimitMessage ==
    "GitHub API rate limit exceeded. Please provide a GitHub token or try again later."

ForbiddenMessage ==
    "Access forbidden. The repository may be private or require authentication."

\* the call of `fn` on the response has ended
Called(fn) == probe # <<>> /\ probe[1].fn = fn

\* C12: githubRequest classifies a 403 response whose X-RateLimit-Remaining header
\* is '0' as rate limited and a 403 response with any other value, or without the
\* header, as forbidden; every 403 response gets exactly one of the two.
C12_RateLimitedOrForbidden ==
    (Called("githubRequest") /\ probe[1].response.status = 403) =>
        /\ probe[1].outcome[1].threw
        /\ probe[1].outcome[1].message \in {RateLimitMessage, ForbiddenMessage}
        /\ probe[1].outcome[1].message = RateLimitMessage
              <=> probe[1].response.remaining = "0"
        /\ probe[1].outcome[1].message = ForbiddenMessage
              <=> probe[1].response.remaining # "0"

\* githubRequest has classified a 403 response without quota left, whose payload
\* is a JSON object
C12_ZeroQuota403Classified ==
    /\ Called("githubRequest")
    /\ probe[1].response.status = 403
    /\ probe[1].response.remaining = "0"
    /\ probe[1].response.body # <<>>
    /\ probe[1].outcome[1].message = RateLimitMessage

(***************************************************************************)
(* C13                                                                     *)
(***************************************************************************)
\* C13: githubRequest, the fetch primitive, never throws for an expected remote
\* condition: a 404, 403, 401, any other non-success status or a malformed payload
\* comes back to its caller as a value, not as an exception.
C13_FetchNeverThrows == Called("githubRequest") => ~probe[1].outcome[1].threw

(***************************************************************************)
(* C14                                                                     *)
(***************************************************************************)
\* the remote answered successfully with a list of entries
AnsweredWithList(response) ==
    /\ response.status >= 200 /\ response.status <= 299
    /\ response.body # <<>>
    /\ response.body[1].isArray

\* C14: checkDirectoryExists returns true only when the remote answers successfully
\* with a list of entries; it returns false for a single-file descriptor and false
\* when the fetch fails for any reason (it never throws).
C14_DirectoryOnlyForList ==
    Called("checkDirectoryExists") =>
        /\ ~probe[1].outcome[1].threw
        /\ probe[1].outcome[1].value[1] \in {"true", "false"}
        /\ probe[1].outcome[1].value[1] = "true" <=> AnsweredWithList(probe[1].response)

\* checkDirectoryExists has answered false on the descriptor of a single file
C14_FileDescriptorIsNoDirectory ==
    /\ Called("checkDirectoryExists")
    /\ probe[1].response.status = 200
    /\ probe[1].response.body # <<>>
    /\ ~probe[1].response.body[1].isArray
    /\ "content" \in DOMAIN probe[1].response.body[1].fields[1]
    /\ probe[1].outcome[1].value[1] = "false"

(***************************************************************************)
(* C15                                                                     *)
(***************************************************************************)
\* the repository a checker is about has no license, no README, and an owner other
\* than 'owasp'
LacksAllThree(c) ==
    /\ Repository(c.owner, c.repo).exists
    /\ Repository(c.owner, c.repo).meta.license = "null"
    /\ Repository(c.owner, c.repo).readme = <<>>
    /\ LowerOwner(c.owner) # "owasp"

\* the repository a checker is about has a license, a README and the owner 'owasp'
HasAllThree(c) ==
    /\ Repository(c.owner, c.repo).exists
    /\ Repository(c.owner, c.repo).meta.license \notin {"null", "undefined"}
    /\ Repository(c.owner, c.repo).readme # <<>>
    /\ LowerOwner(c.owner) = "owasp"

\* the remote answers every other request about the two repositories identically
OtherwiseIdentical(c, d) ==
    [Repository(c.owner, c.repo) EXCEPT !.meta.license = "null", !.readme = <<>>]
        = [Repository(d.owner, d.repo) EXCEPT !.meta.license = "null", !.readme = <<>>]

\* the check of that name scored 0 of 1
ScoredZeroOfOne(results, name) ==
    \E i \in DOMAIN ChecksOf(results) :
        /\ ChecksOf(results)[i].name = name
        /\ ChecksOf(results)[i].points = 0
        /\ ChecksOf(results)[i].maxPoints = 1

\* C15: in the report on a repository with no license, no README and an owner
\* other than 'owasp', the license check, the project-goal check and the
\* organization check each score 0 of 1, and the overall score is strictly lower
\* than that of a repository that has all three and is otherwise answered
\* identically by the remote.
C15_MissingThreeScoresLower ==
    /\ (returned # <<>> /\ LacksAllThree(checker[1])) =>
          /\ ScoredZeroOfOne(returned[1], "Open-source license file present")
          /\ ScoredZeroOfOne(returned[1], "Clearly defined project goal and scope")
          /\ ScoredZeroOfOne(returned[1], "Under OWASP organization")
    /\ (/\ returned # <<>> /\ other # <<>> /\ other[1].returned # <<>>
        /\ LacksAllThree(checker[1]) /\ HasAllThree(other[1].checker[1])
        /\ OtherwiseIdentical(checker[1], other[1].checker[1]))
          => returned[1].score < other[1].returned[1].score

\* both reports are there: the one on the repository lacking all three and the one
\* on its counterpart that has them
C15_BothReportsReturned ==
    /\ returned # <<>> /\ other # <<>> /\ other[1].returned # <<>>
    /\ LacksAllThree(checker[1]) /\ HasAllThree(other[1].checker[1])
    /\ OtherwiseIdentical(checker[1], other[1].checker[1])
    /\ returned[1].score < other[1].returned[1].score

(***************************************************************************)
(* C16                                                                     *)
(***************************************************************************)
\* C16: a fetch that never receives a response expires after a fixed timeout: the
\* run waiting for it still has a step to take (the expiry, failing the requesting
\* check only), so that it goes on to return a report.
C16_UnansweredFetchExpires == pc = "unanswered" => ENABLED HangNext

(***************************************************************************)
(* C17                                                                     *)
(***************************************************************************)
\* the number of requests the run has made at an await point
RequestsAt(site) == Cardinality({i \in DOMAIN requests : requests[i].site = site})

\* the await points inside the two loops of a run
LinterLoopSite == "codeQuality.linter"

CommentLoopSite == "codeComments.file"

\* C17: when every fetch receives a response, every run eventually ends, with a
\* report or an error: every await of the pass over the checks is passed at most
\* once, and the loop over the linter files and the loop over the root-listing
\* entries make no more requests than there are linter files and scanned entries.
C17_RunEnds ==
    /\ <>(pc = "done" /\ (returned # <<>> \/ thrown # <<>> \/ ui.error # <<>>))
    /\ [](/\ RequestsAt(LinterLoopSite) <= Len(LinterFiles)
          /\ RequestsAt(CommentLoopSite) <= CommentScanLimit
          /\ \A i \in DOMAIN requests :
                requests[i].site \notin {LinterLoopSite, CommentLoopSite}
                    => RequestsAt(requests[i].site) = 1)

\* a run ended with a report after its linter loop probed every linter file and
\* its comment loop fetched several files
C17_ReportAfterFullLoops ==
    /\ pc = "done"
    /\ returned # <<>>
    /\ RequestsAt(LinterLoopSite) = Len(LinterFiles)
    /\ RequestsAt(CommentLoopSite) >= 3

(***************************************************************************)
(* C18                                                                     *)
(***************************************************************************)
\* the two invocations are about two different repositories
DifferentRepositories ==
    /\ checker # <<>> /\ other # <<>> /\ other[1].checker # <<>>
    /\ <<checker[1].owner, checker[1].repo>>
           # <<other[1].checker[1].owner, other[1].checker[1].repo>>

\* the other invocation ended while this one was suspended at an await: it has
\* already released the page this one had set to loading
EndedMeanwhile ==
    /\ pc \notin {"idle", "done"}
    /\ other[1].pc = "done"
    /\ ~ui.loading

\* C18: two runs on different repositories whose awaits interleave are
\* independent: what one of them has written (its accumulator, its metadata, a
\* global variable) is never overwritten by the other, so the global in which a
\* run stored its report keeps that report whatever the other run does.
C18_RunsIndependent ==
    [][(/\ DifferentRepositories
        /\ EndedMeanwhile
        /\ other[1].returned # <<>>
        /\ currentResults = other[1].returned)
            => currentResults' = currentResults]_vars

(***************************************************************************)
(* C19                                                                     *)
(***************************************************************************)
\* the points of the ten categories, in the order of the category table
CategoryPoints == <<10, 10, 10, 15, 10, 10, 10, 10, 10, 5>>

\* C19: every report runAllChecks returns has exactly ten categories, whose
\* maxScore values are 10, 10, 10, 15, 10, 10, 10, 10, 10 and 5 in that order, and
\* 100 checks in total, each of weight 1.
C19_TenCategoriesHundredChecks ==
    Returned =>
        LET categories == returned[1].categories
        IN  /\ Len(categories) = 10
            /\ [i \in DOMAIN categories |-> categories[i].maxScore] = CategoryPoints
            /\ SumLen([i \in DOMAIN categories |-> categories[i].checks]) = 100
            /\ \A i \in DOMAIN categories :
                  \A j \in DOMAIN categories[i].checks :
                      categories[i].checks[j].maxPoints = CheckWeight

\* a report was returned in which the 15-point category and the 5-point category
\* both scored less than their maxScore
C19_ReportBelowCategoryMaxima ==
    /\ Returned
    /\ returned[1].categories[4].score < 15
    /\ returned[1].categories[10].score < 5

(***************************************************************************)
(* C20                                                                     *)
(***************************************************************************)
\* the checks addCheck is called for with a literal verdict outside any catch
\* block: their verdict depends on no fetched evidence and no repository metadata
EvidenceFreeChecks ==
    {"Well-defined error messages", "Adheres to DRY principle",
     "Secure coding practices followed", "No hardcoded credentials or secrets",
     "Uses parameterized queries", "Strong cryptographic algorithms",
     "Input validation implemented", "Output encoding for XSS prevention",
     "Uses secure headers (CSP, HSTS, etc.)", "Input validation enforced",
     "RBAC implemented where applicable", "Secure authentication mechanisms",
     "Secrets stored securely", "Uses HTTPS for communication", "Adheres to OWASP ASVS",
     "Secure cookie attributes", "No unnecessary ports exposed", "Logs security events",
     "Least privilege principle", "No outdated/unsafe dependencies",
     "Complies with OWASP Top 10", "Container security scanning", "IaC security checks",
     "Secure secrets management in CI/CD", "Environment configurations managed",
     "Rollback mechanisms available", "Automated fuzz testing",
     "Fails gracefully with error logging", "No sensitive data in logs",
     "Uses dependency injection", "Code optimized for performance",
     "Asynchronous processing where needed", "Caching strategies implemented",
     "Optimized database queries", "Rate limiting to prevent abuse", "No memory leaks",
     "Load testing performed", "Supports horizontal scaling", "Uses lazy loading",
     "Pagination for large datasets", "Logging implemented", "Configurable log levels",
     "Logs don't contain sensitive data", "Monitoring integration",
     "Structured logging format", "Audit logs for security actions",
     "Alerts configured", "Log rotation and archival", "Incident response playbook",
     "Logging config separate from code", "Community guidelines present",
     "Responsive to security issues", "Clear escalation path",
     "PR reviews before merging", "Good issue tracking hygiene", "GDPR/CCPA compliance"}

\* the evidence-free checks the code records with the literal verdict false
EvidenceFreeNotPassed ==
    {"Automated fuzz testing", "Load testing performed", "Monitoring integration",
     "Alerts configured", "Incident response playbook"}

\* C20 (as stated): every evidence-free check is recorded as passed and carries a
\* non-empty advisory details string.
C20_EvidenceFreePassed ==
    checker # <<>> =>
        \A c \in DOMAIN This.results.categories :
            LET checks == This.results.categories[c].checks
            IN  \A j \in DOMAIN checks :
                LET check == checks[j]
                IN  check.name \in EvidenceFreeChecks =>
                        /\ check.passed = "true"
                        /\ check.details # ""

\* C20 (amended): every evidence-free check carries a non-empty advisory details
\* string and a verdict that is fixed in the code: passed, except for 'Automated
\* fuzz testing', 'Load testing performed', 'Monitoring integration', 'Alerts
\* configured' and 'Incident response playbook', which are always recorded as not
\* passed.
C20_EvidenceFreeVerdictFixed ==
    checker # <<>> =>
        \A c \in DOMAIN This.results.categories :
            LET checks == This.results.categories[c].checks
            IN  \A j \in DOMAIN checks :
                LET check == checks[j]
                IN  check.name \in EvidenceFreeChecks =>
                        /\ check.passed
                              = IF check.name \in EvidenceFreeNotPassed
                                THEN "false" ELSE "true"
                        /\ check.details # ""

\* a report was returned that holds every evidence-free check, although requests
\* of the run were answered with failures
C20_AllEvidenceFreeRecorded ==
    /\ Returned
    /\ SomeFetchFailed
    /\ EvidenceFreeChecks
          \subseteq {ChecksOf(returned[1])[i].name : i \in DOMAIN ChecksOf(returned[1])}

(***************************************************************************)
(* C21                                                                     *)
(***************************************************************************)
\* the repository field is empty once trimmed
EmptyReference == Trim(input.repoUrl) = ""

\* the repository field is no URL, names another host, or has no owner/repo path
MalformedReference ==
    \/ NewURL(Trim(input.repoUrl)) = <<>>
    \/ NewURL(Trim(input.repoUrl))[1].hostname \notin {"github.com", "www.github.com"}
    \/ Len(FilterNonEmpty(NewURL(Trim(input.repoUrl))[1].parts)) < 2

EmptyReferenceMessage == "Please enter a GitHub repository URL"

\* C21: when the repository reference is empty or malformed, checkCompliance
\* reports the error before any run starts: no ComplianceChecker is created, no
\* remote request is issued and displayResults is not called, at any time of the
\* invocation; when it has ended the error box shows the message.
C21_BadReferenceStartsNoRun ==
    (EmptyReference \/ MalformedReference) =>
        /\ checker = <<>>
        /\ requests = <<>>
        /\ returned = <<>>
        /\ ui.shown = <<>>
        /\ currentResults = <<>>
        /\ pc \in {"idle", "done"}
        /\ pc = "done" =>
              ui.error = <<IF EmptyReference THEN EmptyReferenceMessage
                            ELSE InvalidUrlMessage>>

\* checkCompliance has ended on a reference that names another host
C21_OtherHostRejected ==
    /\ pc = "done"
    /\ ~EmptyReference
    /\ NewURL(Trim(input.repoUrl)) # <<>>
    /\ NewURL(Trim(input.repoUrl))[1].hostname = "gitlab.com"
    /\ ui.error = <<InvalidUrlMessage>>
    /\ thrown # <<>>

(***************************************************************************)
(* C22                                                                     *)
(***************************************************************************)
\* a numeric field of a category of a report, 0 while the category is absent
CategoryField(results, category, field) ==
    IF CategoryIndex(results.categories, category) = 0 THEN 0
    ELSE results.categories[CategoryIndex(results.categories, category)][field]

\* the weight the last addCheck call counts as scored
ScoredWeight == IF Truthy(probe[1].passed) THEN probe[1].points ELSE 0

\* C22 (as stated): each addCheck(category, name, passed, weight) adds weight to
\* the category score and to the overall score if and only if passed, and adds
\* weight to the category maxScore and to the overall maxScore unconditionally.
C22_WeightAddedToAllTotals ==
    Called("addCheck") =>
        /\ CategoryField(This.results, probe[1].category, "score")
              = CategoryField(probe[1].before.results, probe[1].category, "score")
                  + ScoredWeight
        /\ This.results.score = probe[1].before.results.score + ScoredWeight
        /\ CategoryField(This.results, probe[1].category, "maxScore")
              = CategoryField(probe[1].before.results, probe[1].category, "maxScore")
                  + probe[1].points
        /\ This.results.maxScore = probe[1].before.results.maxScore + probe[1].points

\* C22 (amended): each addCheck(category, name, passed, weight) adds weight to the
\* category score and to the overall score if and only if passed, and adds weight
\* to the category maxScore unconditionally; the overall maxScore is not touched:
\* it stays at the 100 the constructor set.
C22_WeightAddedButOverallMaxFixed ==
    Called("addCheck") =>
        /\ CategoryField(This.results, probe[1].category, "score")
              = CategoryField(probe[1].before.results, probe[1].category, "score")
                  + ScoredWeight
        /\ This.results.score = probe[1].before.results.score + ScoredWeight
        /\ CategoryField(This.results, probe[1].category, "maxScore")
              = CategoryField(probe[1].before.results, probe[1].category, "maxScore")
                  + probe[1].points
        /\ This.results.maxScore = probe[1].before.results.maxScore
        /\ This.results.maxScore = InitialMaxScore

\* addCheck was called with a falsy verdict that is no boolean and a weight of 2,
\* for a category that held checks already
C22_FalsyVerdictWeightTwo ==
    /\ Called("addCheck")
    /\ probe[1].passed = "null"
    /\ probe[1].points = 2
    /\ CategoryField(probe[1].before.results, probe[1].category, "maxScore") > 0
    /\ CategoryField(probe[1].before.results, probe[1].category, "score") > 0

(***************************************************************************)
(* C23                                                                     *)
(***************************************************************************)
\* the invocation under way and the suspended one
Invocations == {Context} \cup {other[i] : i \in DOMAIN other}

\* the credential an invocation was given: the token field, trimmed
Credential(run) == Trim(run.input.token)

\* C23: every remote request of a run carries the accept header, and carries an
\* authorization header with the run's token if and only if the run was given a
\* non-empty credential; no request of a run carries a token other than that
\* run's.
C23_HeadersCarryOwnToken ==
    \A run \in Invocations :
        \A i \in DOMAIN run.requests :
            /\ run.requests[i].headers.Accept = "application/vnd.github.v3+json"
            /\ run.requests[i].headers.Authorization
                  = IF Credential(run) # "" THEN <<"token " \o Credential(run)>> ELSE <<>>

\* two interleaved invocations have both made requests, one with a credential and
\* one without
C23_RequestsWithAndWithoutToken ==
    /\ other # <<>>
    /\ requests # <<>> /\ other[1].requests # <<>>
    /\ pc # "done" /\ other[1].pc # "done"
    /\ Credential(Context) # ""
    /\ Credential(other[1]) = ""

(***************************************************************************)
(* C24                                                                     *)
(***************************************************************************)
\* displayResults: the status line chosen for a percentage
ScoreStatus(percentage) ==
    IF percentage >= 80 THEN "EXCELLENT COMPLIANCE"
    ELSE IF percentage >= 60 THEN "GOOD COMPLIANCE"
    ELSE IF percentage >= 40 THEN "NEEDS IMPROVEMENT"
    ELSE "SIGNIFICANT IMPROVEMENTS NEEDED"

\* C24: whatever the remote answers, a report returned by runAllChecks has a score
\* of at least 51 and at most 95, 51 checks being hard-coded to pass and 5 to
\* fail; so 100% is never reached and the status line for less than 40% is never
\* shown.
C24_ScoreBetween51And95 ==
    /\ Cardinality(EvidenceFreeChecks \ EvidenceFreeNotPassed) = 51
    /\ Cardinality(EvidenceFreeNotPassed) = 5
    /\ Returned =>
          /\ returned[1].score >= 51
          /\ returned[1].score <= 95
          /\ returned[1].percentage < 100
          /\ ScoreStatus(returned[1].percentage) # "SIGNIFICANT IMPROVEMENTS NEEDED"
    /\ ui.shown # <<>> =>
          ScoreStatus(ui.shown[1].percentage) # "SIGNIFICANT IMPROVEMENTS NEEDED"

\* a report was returned whose evidence-backed checks nearly all failed: it is
\* shown with the status line of the lowest band a report can fall into
C24_LowestReachableBand ==
    /\ Returned
    /\ ui.shown = returned
    /\ returned[1].score <= 55
    /\ ScoreStatus(returned[1].percentage) = "NEEDS IMPROVEMENT"

(***************************************************************************)
(* C25                                                                     *)
(* runAllChecks called again on the checker that has just returned a       *)
(* report.  Neither the constructor nor runAllChecks is run in between, so *)
(* this.results is what the first call left; `other` keeps the first call  *)
(* with the report as it was returned.                                     *)
(***************************************************************************)
\* checker.runAllChecks() a second time; its caller displays the report as
\* checkCompliance does
RunAgain ==
    /\ pc = "done"
    /\ returned # <<>>
    /\ other = <<>>
    /\ other' = <<Context>>
    /\ pc' = "fetchRepositoryData"
    /\ returned' = <<>>
    /\ requests' = <<>>
    /\ locals' = NoLocals
    /\ UNCHANGED <<input, ui, currentResults, checker, thrown, faults, now, probe>>

AgainNext ==
    \/ Next
    \/ RunAgain

SpecAgain == Init /\ [][AgainNext]_vars

\* both calls on the one instance have returned
BothCallsReturned == other # <<>> /\ other[1].returned # <<>> /\ returned # <<>>

\* C25: a second runAllChecks on the same ComplianceChecker instance, the remote
\* answering as it did the first time, returns a report equal to the first: the
\* same score, the same category maxScore values, each check listed once, a score
\* not above maxScore and a percentage not above 100.
C25_SecondCallSameReport ==
    (BothCallsReturned /\ IdenticalAnswers) =>
        /\ returned[1].score = other[1].returned[1].score
        /\ [i \in DOMAIN returned[1].categories |-> returned[1].categories[i].maxScore]
              = [i \in DOMAIN other[1].returned[1].categories |->
                    other[1].returned[1].categories[i].maxScore]
        /\ \A i, j \in DOMAIN ChecksOf(returned[1]) :
              i # j => ChecksOf(returned[1])[i].name # ChecksOf(returned[1])[j].name
        /\ returned[1].score <= returned[1].maxScore
        /\ returned[1].percentage <= 100

(***************************************************************************)
(* C26                                                                     *)
(***************************************************************************)
\* the checks decided by the existence of SECURITY.md
SecurityMdChecks ==
    {"Security policy (SECURITY.md)", "Security vulnerability reporting process",
     "Security policy file (SECURITY.md)", "Responsible disclosure policy"}

\* C26: within one report the four checks decided by the existence of SECURITY.md
\* have the same verdict, also when the remote fails on one of the requests of the
\* run.
C26_SecurityMdVerdictsAgree ==
    Returned =>
        \A i, j \in DOMAIN ChecksOf(returned[1]) :
            (/\ ChecksOf(returned[1])[i].name \in SecurityMdChecks
             /\ ChecksOf(returned[1])[j].name \in SecurityMdChecks)
                => ChecksOf(returned[1])[i].passed = ChecksOf(returned[1])[j].passed

(***************************************************************************)
(* C27                                                                     *)
(***************************************************************************)
\* C27: in every reachable state of a run, so after every addCheck: each check
\* record has points equal to maxPoints when it passed and 0 otherwise; each
\* category score equals the sum of its records' points and does not exceed the
\* category maxScore, which equals the sum of its records' maxPoints; and the
\* overall score equals the sum of the category scores.
C27_ScoresAreSums ==
    checker # <<>> =>
        /\ \A c \in DOMAIN This.results.categories :
              LET category == This.results.categories[c]
                  checks == category.checks
              IN  /\ \A j \in DOMAIN checks :
                        LET check == checks[j]
                        IN  check.points
                                = IF Truthy(check.passed) THEN check.maxPoints ELSE 0
                  /\ category.score = SumOf(checks, "points")
                  /\ category.maxScore = SumOf(checks, "maxPoints")
                  /\ category.score <= category.maxScore
        /\ This.results.score = SumOf(This.results.categories, "score")

\* a run is under way that has recorded a check whose verdict is null, counted as
\* not passed, so that its category scores less than its maxScore
C27_NullVerdictScoresNothing ==
    /\ checker # <<>>
    /\ pc # "done"
    /\ This.results.categories # <<>>
    /\ \E j \in DOMAIN This.results.categories[1].checks :
          /\ This.results.categories[1].checks[j].passed = "null"
          /\ This.results.categories[1].checks[j].points = 0
    /\ This.results.categories[1].score < This.results.categories[1].maxScore
    /\ Len(This.results.categories) >= 3

(***************************************************************************)
(* C28                                                                     *)
(***************************************************************************)
\* README, API Rate Limits: requests per hour without authentication
UnauthenticatedQuota == 60

\* the sites of the test-directory probes of checkCICD and of checkTesting
CicdTestProbes == {"cicd.tests", "cicd.test", "cicd.__tests__"}

TestingTestProbes == {"testing.tests", "testing.test"}

\* request i of the run was answered with a directory listing
DirectoryFound(i) ==
    /\ requests[i].outcome = "ok"
    /\ requests[i].endpoint.path
          \in Repository(requests[i].endpoint.owner, requests[i].endpoint.repo).dirs

\* request i of the run was answered with success
FileFound(i) == requests[i].outcome = "ok"

\* no probe at one of the sites follows a probe there that found its file
StopsAtFirstFile(sites) ==
    LET probes == {i \in DOMAIN requests : requests[i].site \in sites}
    IN  \A i \in probes : FileFound(i) => \A j \in probes : j <= i

\* no probe at one of the sites follows a probe there that found its directory
StopsAtFirstDirectory(sites) ==
    LET probes == {i \in DOMAIN requests : requests[i].site \in sites}
    IN  \A i \in probes : DirectoryFound(i) => \A j \in probes : j <= i

\* C28: a run issues at most 48 remote requests whatever the remote answers, fewer
\* than the unauthenticated quota of 60 requests per hour: the linter probe stops
\* at the first file found, the code-comment probe reads at most the first 5 root
\* entries, and the test-directory probes stop at the first directory found.
C28_AtMost48Requests ==
    /\ Len(requests) <= 48
    /\ 48 < UnauthenticatedQuota
    /\ StopsAtFirstFile({LinterLoopSite})
    /\ RequestsAt(CommentLoopSite) <= 5
    /\ \A i \in {k \in DOMAIN requests : requests[k].site = CommentLoopSite} :
          LET root == Repository(This.owner, This.repo).root
          IN  \E k \in 1..5 :
                  /\ k <= Len(root)
                  /\ root[k].path = requests[i].endpoint.path
    /\ StopsAtFirstDirectory(CicdTestProbes)
    /\ StopsAtFirstDirectory(TestingTestProbes)

\* a run returned its report after 48 requests: no linter file, no test directory
\* and no comment in any of the first five root entries
C28_ReportAfter48Requests ==
    /\ Returned
    /\ Len(requests) = 48
    /\ RequestsAt(LinterLoopSite) = Len(LinterFiles)
    /\ RequestsAt(CommentLoopSite) = 5

(***************************************************************************)
(* C29                                                                     *)
(***************************************************************************)
\* the check list of a category of a report, empty while the category is absent
ChecksIn(results, category) ==
    IF CategoryIndex(results.categories, category) = 0 THEN <<>>
    ELSE results.categories[CategoryIndex(results.categories, category)].checks

\* C29: addCheck only appends: it adds exactly one record, the one of its call, at
\* the end of the named category's list, creates that category (after the present
\* ones) when it is absent, and leaves every earlier record, every other category,
\* the report url and the repository metadata unchanged.
C29_AddCheckOnlyAppends ==
    Called("addCheck") =>
        LET before == probe[1].before
            list == ChecksIn(This.results, probe[1].category)
        IN  /\ Len(list) = Len(ChecksIn(before.results, probe[1].category)) + 1
            /\ SubSeq(list, 1, Len(list) - 1) = ChecksIn(before.results, probe[1].category)
            /\ list[Len(list)].name = probe[1].name
            /\ list[Len(list)].passed = probe[1].passed
            /\ list[Len(list)].maxPoints = probe[1].points
            /\ Len(This.results.categories)
                  = Len(before.results.categories)
                      + (IF CategoryIndex(before.results.categories, probe[1].category) = 0
                         THEN 1 ELSE 0)
            /\ \A i \in DOMAIN before.results.categories :
                  /\ This.results.categories[i].name = before.results.categories[i].name
                  /\ before.results.categories[i].name # probe[1].category
                        => This.results.categories[i] = before.results.categories[i]
            /\ This.results.url = before.results.url
            /\ This.repoData = before.repoData
            /\ <<This.owner, This.repo, This.token>>
                  = <<before.owner, before.repo, before.token>>

\* addCheck was called for a category that held a record already, while another
\* category with records of its own was present
C29_AppendedBesideOtherCategory ==
    /\ Called("addCheck")
    /\ Len(ChecksIn(This.results, probe[1].category)) >= 2
    /\ Len(This.results.categories) = 2
    /\ \A i \in DOMAIN This.results.categories : This.results.categories[i].checks # <<>>

(***************************************************************************)
(* C30                                                                     *)
(***************************************************************************)
\* C30: every checkCompliance invocation that enters the loading state leaves it
\* again through setLoading(false), whether the run returns a report, fails on a
\* malformed reference or fails on a remote error, provided every remote fetch is
\* answered; the page is loading exactly while the invocation is under way.
C30_LoadingEnds ==
    /\ ui.loading ~> ~ui.loading
    /\ [](pc = "done" => ~ui.loading)
    /\ [](pc \notin {"idle", "done"} => ui.loading)

\* an invocation that had entered the loading state has ended on a remote error
\* and has left the loading state
C30_LoadingLeftAfterRemoteError ==
    /\ pc = "done"
    /\ thrown # <<>>
    /\ thrown[1].at = MetadataSite
    /\ requests # <<>>
    /\ ui.error # <<>>
    /\ ~ui.loading

====
